---------------------------- MODULE Spec2Model ----------------------------
(***************************************************************************)
(* Model of the Dewey orchestrator (src/app/dewey.py): the step context    *)
(* manager with its StepYielder handle, and the generator Dewey.process    *)
(* with its three stages and the citation rewriting of the streamed        *)
(* answer.  Texts are sequences of one-character strings.  Python objects  *)
(* that are shared by reference (step dicts, step lists, StepYielder       *)
(* handles) live in heaps indexed by object id.                            *)
(***************************************************************************)
EXTENDS Integers, Sequences, FiniteSets, TLC

(***************************************************************************)
(* Bounds of the model.                                                    *)
(***************************************************************************)
\* text fragments, empty deltas and other events one stream may deliver
MaxChunks == 3
\* hits the search service returns at most in the model (the code asks top=10)
MaxSources == 3
\* step scopes the client of the step API opens
MaxScopes == 2
\* calls the client of the step API makes
MaxCalls == 3

(***************************************************************************)
(* Texts.                                                                  *)
(***************************************************************************)
Digits == {"0", "1", "2", "3", "4"}

\* int() of one decimal digit
DigitVal(c) ==
    CASE c = "0" -> 0 [] c = "1" -> 1 [] c = "2" -> 2 [] c = "3" -> 3
      [] c = "4" -> 4 [] OTHER -> 0

\* int(m.group(1)): the value of a digit string, leading zeros allowed
RECURSIVE DigitsToInt(_)
DigitsToInt(ds) ==
    IF ds = << >> THEN 0
    ELSE 10 * DigitsToInt(SubSeq(ds, 1, Len(ds) - 1)) + DigitVal(ds[Len(ds)])

\* s starts with p
IsPrefix(p, s) == Len(p) <= Len(s) /\ SubSeq(s, 1, Len(p)) = p

\* s ends with p
IsSuffix(p, s) == Len(p) <= Len(s) /\ SubSeq(s, Len(s) - Len(p) + 1, Len(s)) = p

\* number of (possibly overlapping) occurrences of p in s
Count(p, s) ==
    Cardinality({i \in 1..(Len(s) - Len(p) + 1) : SubSeq(s, i, i + Len(p) - 1) = p})

\* concatenation of a sequence of texts
RECURSIVE Flatten(_)
Flatten(ss) == IF ss = << >> THEN << >> ELSE Head(ss) \o Flatten(Tail(ss))

(***************************************************************************)
(* The citation rewriting of process: re.sub(r'\[SRC(\d+)\]', repl, s).    *)
(***************************************************************************)
\* last index of the run of digits of s that starts at i (i - 1 if none)
RECURSIVE DigitRunEnd(_, _)
DigitRunEnd(s, i) ==
    IF i <= Len(s) /\ s[i] \in Digits THEN DigitRunEnd(s, i + 1) ELSE i - 1

\* fault variant of MatchEnd: the pattern \[SRC(\d+)\]? also matches a marker
\* that the end of the text leaves open
MatchEndOpen(s, i) ==
    IF /\ i + 4 <= Len(s)
       /\ s[i] = "[" /\ s[i + 1] = "S" /\ s[i + 2] = "R" /\ s[i + 3] = "C"
    THEN LET e == DigitRunEnd(s, i + 4)
         IN  IF e >= i + 4 /\ e + 1 <= Len(s) /\ s[e + 1] = "]" THEN e + 1
             ELSE IF e >= i + 4 /\ e = Len(s) THEN e + 1
             ELSE 0
    ELSE 0

\* index of the closing "]" of a match of \[SRC(\d+)\] starting at i, 0 if none
MatchEnd(s, i) ==
    IF /\ i + 5 <= Len(s)
       /\ s[i] = "[" /\ s[i + 1] = "S" /\ s[i + 2] = "R" /\ s[i + 3] = "C"
    THEN LET e == DigitRunEnd(s, i + 4)
         IN  IF e >= i + 4 /\ e + 1 <= Len(s) /\ s[e + 1] = "]" THEN e + 1 ELSE 0
    ELSE 0

\* fault variant of UrlFor: source_urls.get(k, '')
UrlForNoAnchor(source_urls, k) ==
    IF k \in DOMAIN source_urls THEN source_urls[k] ELSE << >>

\* source_urls.get(k, '#')
UrlFor(source_urls, k) ==
    IF k \in DOMAIN source_urls THEN source_urls[k] ELSE <<"#">>

\* str(int(ds)): the numeral without its leading zeros
RECURSIVE Canonical(_)
Canonical(ds) ==
    IF Len(ds) > 1 /\ ds[1] = "0" THEN Canonical(Tail(ds)) ELSE ds

\* fault variant of Citation: f"[[{int(m.group(1))}]](...)", the label printed
\* from the value
CitationValueLabel(source_urls, ds) ==
    <<"[", "[">> \o Canonical(ds) \o <<"]", "]", "(">>
        \o UrlFor(source_urls, DigitsToInt(ds)) \o <<")">>

\* fault variant of Citation: f"[{m.group(1)}]", the number without its link
CitationNumberOnly(source_urls, ds) == <<"[">> \o ds \o <<"]">>

\* the replacement lambda: f"[[{m.group(1)}]]({source_urls.get(int(m.group(1)), '#')})"
Citation(source_urls, ds) ==
    <<"[", "[">> \o ds \o <<"]", "]", "(">> \o UrlFor(source_urls, DigitsToInt(ds))
        \o <<")">>

\* fault variant of SubFrom: re.sub with count=1, only the first match is replaced
RECURSIVE SubFromOnce(_, _, _)
SubFromOnce(source_urls, s, i) ==
    IF i > Len(s) THEN << >>
    ELSE LET e == MatchEnd(s, i)
         IN  IF e > 0
             THEN Citation(source_urls, SubSeq(s, i + 4, e - 1)) \o SubSeq(s, e + 1, Len(s))
             ELSE <<s[i]>> \o SubFromOnce(source_urls, s, i + 1)

\* re.sub scanning s from index i: leftmost matches, not overlapping
RECURSIVE SubFrom(_, _, _)
SubFrom(source_urls, s, i) ==
    IF i > Len(s) THEN << >>
    ELSE LET e == MatchEnd(s, i)
         IN  IF e > 0
             THEN Citation(source_urls, SubSeq(s, i + 4, e - 1))
                      \o SubFrom(source_urls, s, e + 1)
             ELSE <<s[i]>> \o SubFrom(source_urls, s, i + 1)

\* the length of the marker that the end of s leaves open, 0 if none
RECURSIVE OpenTailLen(_, _)
OpenTailLen(s, k) ==
    IF k > Len(s) THEN 0
    ELSE LET t == SubSeq(s, Len(s) - k + 1, Len(s))
         IN  IF /\ t[1] = "["
                /\ \A i \in 2..Len(t) :
                       IF i <= 4 THEN t[i] = <<"[", "S", "R", "C">>[i]
                       ELSE t[i] \in Digits
             THEN k
             ELSE OpenTailLen(s, k + 1)

\* fault variant of Rewrite: an open marker is held back until it is complete
RewriteHoldBack(source_urls, partial) ==
    SubFrom(source_urls, SubSeq(partial, 1, Len(partial) - OpenTailLen(partial, 1)), 1)

\* processed_partial
Rewrite(source_urls, partial) == SubFrom(source_urls, partial, 1)


(***************************************************************************)
(* State.                                                                  *)
(***************************************************************************)
VARIABLES
    current_steps,  \* self._current_steps: id of a list object, 0: no such attribute
    lists,          \* heap of list objects: each a sequence of step dict ids
    dicts,          \* heap of step dicts: title, status and, once set, content
    yielders,       \* heap of the handles step() yields, with the scope's position
    gen,            \* the generator frames of process, one per call
    ext,            \* what the external services answer to each call of process
    client,         \* a direct client of the step API: its calls and the last return
    chat            \* chat_with_dewey: the session state and the frame of each call

vars == <<current_steps, lists, dicts, yielders, gen, ext, client, chat>>

\* the objects reachable from the Dewey instance and the handles, as one value
Heap == [current_steps |-> current_steps, lists |-> lists, dicts |-> dicts,
         yielders |-> yielders]

SetHeap(H) ==
    /\ current_steps' = H.current_steps
    /\ lists' = H.lists
    /\ dicts' = H.dicts
    /\ yielders' = H.yielders

(***************************************************************************)
(* Dewey.step and StepYielder.  Each operator maps a heap to the heap      *)
(* after the call, with the value the call returns.                        *)
(***************************************************************************)
\* step["content"] = content
SetContent(d, content) == ("content" :> content) @@ d

\* step.get('content', '')
GetContent(d) == IF "content" \in DOMAIN d THEN d.content ELSE << >>

\* ("", self.steps_list.copy()): the text and a new list of the same step dicts
Snapshot(H, steps_list) == [text |-> << >>, steps |-> H.lists[steps_list]]

\* fault variant of StepEnter: insert(0, step), the new step is put at the head
\* of the list
StepEnterInFront(H, title, show_steps) ==
    IF ~show_steps
    THEN [H |-> [H EXCEPT !.yielders = Append(@,
                    [kind |-> "lambda", step |-> 0, steps_list |-> 0,
                     has_started |-> FALSE, scope |-> "open"])],
          handle |-> Len(H.yielders) + 1]
    ELSE LET d  == Len(H.dicts) + 1
             H1 == IF H.current_steps = 0
                   THEN [H EXCEPT !.lists = Append(@, << >>),
                                  !.current_steps = Len(H.lists) + 1]
                   ELSE H
             l  == H1.current_steps
         IN  [H |-> [H1 EXCEPT
                        !.dicts = Append(@, [title |-> title, status |-> "pending"]),
                        !.lists[l] = <<d>> \o @,
                        !.yielders = Append(@,
                            [kind |-> "StepYielder", step |-> d, steps_list |-> l,
                             has_started |-> FALSE, scope |-> "open"])],
              handle |-> Len(H.yielders) + 1]

\* step(title, show_steps) up to its yield; handle is the id of what it yields
StepEnter(H, title, show_steps) ==
    IF ~show_steps
    THEN [H |-> [H EXCEPT !.yielders = Append(@,
                    [kind |-> "lambda", step |-> 0, steps_list |-> 0,
                     has_started |-> FALSE, scope |-> "open"])],
          handle |-> Len(H.yielders) + 1]
    ELSE LET d  == Len(H.dicts) + 1
             \* if not hasattr(self, '_current_steps'): self._current_steps = []
             H1 == IF H.current_steps = 0
                   THEN [H EXCEPT !.lists = Append(@, << >>),
                                  !.current_steps = Len(H.lists) + 1]
                   ELSE H
             l  == H1.current_steps
         IN  [H |-> [H1 EXCEPT
                        !.dicts = Append(@, [title |-> title, status |-> "pending"]),
                        !.lists[l] = Append(@, d),
                        !.yielders = Append(@,
                            [kind |-> "StepYielder", step |-> d, steps_list |-> l,
                             has_started |-> FALSE, scope |-> "open"])],
              handle |-> Len(H.yielders) + 1]

\* fault variant of YielderStart: has_started is not consulted
YielderStartAgain(H, y, content) ==
    LET h == H.yielders[y]
    IN  IF h.kind # "StepYielder"
        THEN [H |-> H, ret |-> << >>, raised |-> TRUE]
        ELSE LET H1 == [H EXCEPT
                          !.dicts[h.step] =
                              IF content # << >> THEN SetContent(@, content) ELSE @,
                          !.yielders[y].has_started = TRUE]
             IN  [H |-> H1, ret |-> <<Snapshot(H1, h.steps_list)>>, raised |-> FALSE]

\* StepYielder.start(content); ret is << >> for None, <<event>> for a tuple
YielderStart(H, y, content) ==
    LET h == H.yielders[y]
    IN  IF h.kind # "StepYielder"
        THEN [H |-> H, ret |-> << >>, raised |-> TRUE]
        ELSE IF ~h.has_started
        THEN LET H1 == [H EXCEPT
                          !.dicts[h.step] =
                              IF content # << >> THEN SetContent(@, content) ELSE @,
                          !.yielders[y].has_started = TRUE]
             IN  [H |-> H1, ret |-> <<Snapshot(H1, h.steps_list)>>, raised |-> FALSE]
        ELSE [H |-> H, ret |-> << >>, raised |-> FALSE]

\* fault variant of YielderComplete: the content is written without the test of
\* line 66, so an empty content wipes the one the step has
YielderCompleteAnyContent(H, y, content) ==
    LET h == H.yielders[y]
    IN  IF h.kind # "StepYielder"
        THEN [H |-> H, ret |-> << >>, raised |-> TRUE]
        ELSE LET H1 == [H EXCEPT
                          !.dicts[h.step] =
                              SetContent([@ EXCEPT !.status = "done"], content)]
             IN  [H |-> H1, ret |-> <<Snapshot(H1, h.steps_list)>>, raised |-> FALSE]

\* StepYielder.complete(content)
YielderComplete(H, y, content) ==
    LET h == H.yielders[y]
    IN  IF h.kind # "StepYielder"
        THEN [H |-> H, ret |-> << >>, raised |-> TRUE]
        ELSE LET H1 == [H EXCEPT
                          !.dicts[h.step] =
                              IF content # << >>
                              THEN SetContent([@ EXCEPT !.status = "done"], content)
                              ELSE [@ EXCEPT !.status = "done"]]
             IN  [H |-> H1, ret |-> <<Snapshot(H1, h.steps_list)>>, raised |-> FALSE]

\* fault variant of StepFinally: the scope exits and leaves the status as it is
StepExitOnly(H, y) == [H EXCEPT !.yielders[y].scope = "closed"]

\* the finally clause of step(): the scope exits, normally or by an exception
StepFinally(H, y) ==
    LET h == H.yielders[y]
    IN  IF h.kind # "StepYielder"
        THEN [H EXCEPT !.yielders[y].scope = "closed"]
        ELSE [H EXCEPT !.dicts[h.step].status = "done",
                       !.yielders[y].scope = "closed"]


(***************************************************************************)
(* TipFormatter (src/app/tips.py).  An emoji is one character of the text; *)
(* it is spelled by its name.                                              *)
(***************************************************************************)
\* ', '.join(names)
RECURSIVE JoinComma(_)
JoinComma(names) ==
    IF names = << >> THEN << >>
    ELSE IF Len(names) = 1 THEN names[1]
    ELSE names[1] \o <<",", " ">> \o JoinComma(Tail(names))

\* "\n".join(blocks)
RECURSIVE JoinLines(_)
JoinLines(blocks) ==
    IF blocks = << >> THEN << >>
    ELSE IF Len(blocks) = 1 THEN blocks[1]
    ELSE blocks[1] \o <<"\n">> \o JoinLines(Tail(blocks))

\* filter(lambda x: len(x) > 0, blocks)
RECURSIVE NonEmpty(_)
NonEmpty(blocks) ==
    IF blocks = << >> THEN << >>
    ELSE IF Head(blocks) = << >> THEN NonEmpty(Tail(blocks))
    ELSE <<Head(blocks)>> \o NonEmpty(Tail(blocks))

\* "Written by "
WrittenBy == <<"W", "r", "i", "t", "t", "e", "n", " ", "b", "y", " ">>

\* fault variant of AuthorText: the names are joined with ", " and no "and"
AuthorTextCommasOnly(author_names) ==
    IF author_names = << >> THEN << >>
    ELSE <<"(pen)", " ">> \o WrittenBy \o JoinComma(author_names)

\* author_text (lines 16-21)
AuthorText(author_names) ==
    LET n == Len(author_names)
    IN  IF n = 1 THEN <<"(pen)", " ">> \o WrittenBy \o author_names[1]
        ELSE IF n > 1
        THEN <<"(pen)", " ">> \o WrittenBy \o JoinComma(SubSeq(author_names, 1, n - 1))
                 \o (IF n > 2 THEN <<",">> ELSE << >>)
                 \o <<" ", "a", "n", "d", " ">> \o author_names[n]
        ELSE << >>

\* date_text (lines 8-14)
DateText(start_date, end_date) ==
    IF start_date # << >> /\ end_date # << >>
    THEN <<"(hourglass)", " ">> \o <<"F", "r", "o", "m", " ">> \o start_date
             \o <<" ", "t", "o", " ">> \o end_date \o <<".">>
    ELSE IF start_date # << >>
    THEN <<"(hourglass)", " ">> \o <<"A", "f", "t", "e", "r", " ">> \o start_date \o <<".">>
    ELSE IF end_date # << >>
    THEN <<"(hourglass)", " ">> \o <<"U", "n", "t", "i", "l", " ">> \o end_date
    ELSE << >>

tip_metadata(metadata) ==
    LET search_text ==
            <<"(magnifier)", " ">> \o <<"S", "e", "a", "r", "c", "h", "e", "d", " ">>
                \o <<"\"">> \o metadata.question \o <<"\"">>
        date_text == DateText(metadata.date_range.start_date, metadata.date_range.end_date)
        author_names == [i \in DOMAIN metadata.authors |-> metadata.authors[i].name]
        author_text == AuthorText(author_names)
    IN  JoinLines(NonEmpty(<<search_text, date_text, author_text>>))

tip_search(sources) ==
    <<"(magnifier)", " ">> \o <<"R", "e", "t", "r", "i", "e", "v", "e", "d", " ">>
        \o <<ToString(Len(sources))>> \o <<" ", "a", "r", "t", "i", "c", "l", "e", "s", ".">>

(***************************************************************************)
(* Dewey.retrieve_articles: the normalisation of the hits.                 *)
(***************************************************************************)
\* str.replace(old, " ") for a one-character old
Replace(s, old) == [i \in DOMAIN s |-> IF s[i] = old THEN " " ELSE s[i]]

\* json.dumps of an object, and json.loads of the string it gave
Dumps(obj) == [json |-> obj]
Loads(str) == str.json

\* the dict dumped for one hit (lines 116-122)
SourceOf(page) ==
    Dumps([url |-> page.url, headline |-> page.headline,
           content |-> Replace(Replace(page.content, "\n"), "\r")])

\* sources, for the pages of the search results in order
SourcesOf(results) == [i \in DOMAIN results |-> SourceOf(results[i])]

\* source_urls (lines 164-167): for i, source_json in enumerate(sources, 1)
RECURSIVE SourceUrlsFrom(_, _, _)
SourceUrlsFrom(sources, i, source_urls) ==
    IF i > Len(sources) THEN source_urls
    ELSE SourceUrlsFrom(sources, i + 1, (i :> Loads(sources[i]).url) @@ source_urls)

\* fault variant of SourceUrls: enumerate(sources), counting from 0
SourceUrlsFromZero(sources) ==
    [k \in 0..(Len(sources) - 1) |-> Loads(sources[k + 1]).url]

SourceUrls(sources) == SourceUrlsFrom(sources, 1, << >>)


(***************************************************************************)
(* Dewey.process: a generator.  pc names the line the frame is suspended   *)
(* at: a yield (the caller holds the event), an external call, or the      *)
(* read of the next chunk of the stream.                                   *)
(***************************************************************************)
Gens == {1, 2}

NoMetadata ==
    [question |-> << >>, date_range |-> [start_date |-> << >>, end_date |-> << >>],
     authors |-> << >>]

\* the frame before process is called.  Beside the locals of process it keeps
\* what the run did: chunks, the events read from the stream; out, the events
\* yielded; calls, the requests sent to the services; stream, whether the frame
\* holds the response stream ("none" before the request, "held", "released")
NoFrame ==
    [pc |-> "none", show_steps |-> TRUE, step |-> 0, handles |-> << >>,
     messages |-> << >>, metadata |-> NoMetadata, sources |-> << >>,
     source_urls |-> << >>, response |-> << >>, partial |-> << >>,
     chunks |-> << >>, out |-> << >>, error |-> "none",
     calls |-> << >>, stream |-> "none"]

YieldLines == {"line144", "line148", "line153", "line157", "line187"}
EndLines == {"returned", "raised", "closed"}

\* the event as the caller receives it: the text and the list of step dicts.  Two
\* more fields record the moment of the yield: view, what the step dicts showed,
\* and partial, the accumulator the text was computed from
Event(H, text, steps, partial) ==
    [text |-> text, steps |-> steps, partial |-> partial,
     view |-> [i \in DOMAIN steps |-> H.dicts[steps[i]]]]

\* fault variant of YieldResult: the caller gets the event ahead of those it has
YieldResultInFront(H, f, ret) ==
    IF ret = << >> THEN f.out
    ELSE <<Event(H, ret[1].text, ret[1].steps, << >>)>> \o f.out

\* yield result, for the tuple a handle returned
YieldResult(H, f, ret) ==
    IF ret = << >> THEN f.out ELSE Append(f.out, Event(H, ret[1].text, ret[1].steps, << >>))

\* fault variant of Raise: step() has no try/finally around its yield, so the
\* exception passes the scope and leaves the step as it is
RaiseLeavesPending(g, H, error, inStep) ==
    /\ SetHeap(H)
    /\ gen' = [gen EXCEPT ![g].pc = "raised", ![g].error = error,
                          ![g].stream = IF @ = "held" THEN "released" ELSE @]

\* an exception leaves the frame; the scope of an open step exits on the way
Raise(g, H, error, inStep) ==
    /\ SetHeap(IF inStep THEN StepFinally(H, gen[g].step) ELSE H)
    /\ gen' = [gen EXCEPT ![g].pc = "raised", ![g].error = error,
                          ![g].stream = IF @ = "held" THEN "released" ELSE @]

\* process(message, history, show_steps): creates the generator, runs nothing
Call(g) ==
    /\ gen[g].pc = "none"
    /\ ext[g].called
    /\ \E show_steps \in BOOLEAN :
           gen' = [gen EXCEPT ![g].pc = "created", ![g].show_steps = show_steps]
    /\ UNCHANGED <<current_steps, lists, dicts, yielders, ext, client, chat>>

\* fault variant of ResetSteps: the list of the run before is kept
ResetStepsSkipped(H) == H

\* self._current_steps = []
ResetSteps(H) ==
    [H EXCEPT !.lists = Append(@, << >>), !.current_steps = Len(H.lists) + 1]

\* "I'm planning my approach." and "Digging through the archives"
PlanningText ==
    <<"I", "'", "m", " ", "p", "l", "a", "n", "n", "i", "n", "g", " ", "m",
      "y", " ", "a", "p", "p", "r", "o", "a", "c", "h", ".">>

DiggingText ==
    <<"D", "i", "g", "g", "i", "n", "g", " ", "t", "h", "r", "o", "u", "g",
      "h", " ", "t", "h", "e", " ", "a", "r", "c", "h", "i", "v", "e", "s">>

\* fault variant of BuildMessages: messages = history, so the append of line
\* 136 writes into the list of the caller
BuildMessagesInPlace(history, message) ==
    LET messages == Append(history, [role |-> "user", content |-> message])
    IN  [messages |-> messages, history |-> messages]

\* lines 135-139: a new list of new dicts, with the role and the content of each
\* turn, and the message of the user appended to it; history is only read
BuildMessages(history, message) ==
    [messages |-> Append([i \in DOMAIN history |->
                             [role |-> history[i].role, content |-> history[i].content]],
                         [role |-> "user", content |-> message]),
     history |-> history]

\* lines 128-144: reset the steps, build the messages, enter step 1, start it
Begin(g) ==
    /\ gen[g].pc = "created"
    /\ LET f  == gen[g]
           H0 == ResetSteps(Heap)
           B  == BuildMessages(ext[g].history, ext[g].message)
           E  == StepEnter(H0, "Generating metadata", f.show_steps)
           S  == YielderStart(E.H, E.handle, <<"(magnifier)", " ">> \o PlanningText)
           f1 == [f EXCEPT !.messages = B.messages, !.step = E.handle,
                           !.handles = Append(@, E.handle)]
       IN  IF S.raised
           THEN /\ SetHeap(StepFinally(S.H, E.handle))
                /\ gen' = [gen EXCEPT ![g] = [f1 EXCEPT !.pc = "raised",
                                                       !.error = "AttributeError"]]
           ELSE /\ SetHeap(S.H)
                /\ gen' = [gen EXCEPT ![g] = [f1 EXCEPT !.pc = "line144",
                                               !.out = YieldResult(S.H, f1, S.ret)]]
    /\ ext' = [ext EXCEPT ![g].history = BuildMessages(@, ext[g].message).history]
    /\ UNCHANGED <<client, chat>>

\* line 145: the caller resumes the generator, which calls generate_metadata
GenerateMetadata(g) ==
    /\ gen[g].pc = "line144"
    /\ gen' = [gen EXCEPT ![g].pc = "line77",
                          ![g].calls = Append(@, "responses.create")]
    /\ UNCHANGED <<current_steps, lists, dicts, yielders, ext, client, chat>>

\* lines 85, 146-148: the model service answered; complete step 1
MetadataReturned(g) ==
    /\ gen[g].pc = "line77"
    /\ LET f  == gen[g]
           metadata == ext[g].metadata
           C  == YielderComplete(Heap, f.step, tip_metadata(metadata))
       IN  /\ SetHeap(C.H)
           /\ gen' = [gen EXCEPT ![g] = [f EXCEPT !.pc = "line148",
                                          !.metadata = metadata,
                                          !.out = YieldResult(C.H, f, C.ret)]]
    /\ UNCHANGED <<ext, client, chat>>

\* fault variant of MetadataFailed: the exception is caught and passed over, and
\* the run goes on without the metadata
MetadataFailedSwallowed(g) ==
    /\ gen[g].pc = "line77"
    /\ gen' = [gen EXCEPT ![g].pc = "line148"]
    /\ UNCHANGED <<current_steps, lists, dicts, yielders, ext, client, chat>>

\* lines 77-85: the call fails, or the answer does not parse
MetadataFailed(g) ==
    /\ gen[g].pc = "line77"
    /\ Raise(g, Heap, "IntentExtractionError", TRUE)
    /\ UNCHANGED <<ext, client, chat>>

\* lines 148-153: step 1's scope exits, enter step 2, start it
SearchingArticles(g) ==
    /\ gen[g].pc = "line148"
    /\ LET f  == gen[g]
           H0 == StepFinally(Heap, f.step)
           E  == StepEnter(H0, "Searching articles", f.show_steps)
           S  == YielderStart(E.H, E.handle, <<"(magnifier)", " ">> \o DiggingText)
       IN  /\ SetHeap(S.H)
           /\ gen' = [gen EXCEPT ![g] = [f EXCEPT !.pc = "line153",
                                          !.step = E.handle,
                                          !.handles = Append(@, E.handle),
                                          !.out = YieldResult(S.H, f, S.ret)]]
    /\ UNCHANGED <<ext, client, chat>>

\* line 154, 91: the caller resumes; retrieve_articles asks for the embedding
CreateEmbedding(g) ==
    /\ gen[g].pc = "line153"
    /\ gen' = [gen EXCEPT ![g].pc = "line91",
                          ![g].calls = Append(@, "embeddings.create")]
    /\ UNCHANGED <<current_steps, lists, dicts, yielders, ext, client, chat>>

\* lines 96-103: the embedding arrived; the search is issued
Search(g) ==
    /\ gen[g].pc = "line91"
    /\ gen' = [gen EXCEPT ![g].pc = "line103",
                          ![g].calls = Append(@, "search")]
    /\ UNCHANGED <<current_steps, lists, dicts, yielders, ext, client, chat>>

\* lines 113-124, 155-157: the hits arrived; normalise them, complete step 2
SearchReturned(g) ==
    /\ gen[g].pc = "line103"
    /\ LET f  == gen[g]
           sources == SourcesOf(ext[g].hits)
           C  == YielderComplete(Heap, f.step, tip_search(sources))
       IN  /\ SetHeap(C.H)
           /\ gen' = [gen EXCEPT ![g] = [f EXCEPT !.pc = "line157",
                                          !.sources = sources,
                                          !.out = YieldResult(C.H, f, C.ret)]]
    /\ UNCHANGED <<ext, client, chat>>

\* fault variant of RetrievalFailed: retrieve_articles is tried again when it
\* fails
RetrievalFailedRetry(g) ==
    /\ gen[g].pc \in {"line91", "line103"}
    /\ gen' = [gen EXCEPT ![g].pc = "line91",
                          ![g].calls = Append(@, "embeddings.create")]
    /\ UNCHANGED <<current_steps, lists, dicts, yielders, ext, client, chat>>

\* lines 91-122: the embedding or the search fails, or a hit is malformed
RetrievalFailed(g) ==
    /\ gen[g].pc \in {"line91", "line103"}
    /\ Raise(g, Heap, "RetrievalError", TRUE)
    /\ UNCHANGED <<ext, client, chat>>

\* fault variant of RequestAnswer: the steps are reset once more before the
\* answer is requested
RequestAnswerResets(g) ==
    /\ gen[g].pc = "line157"
    /\ LET f == gen[g]
       IN  /\ SetHeap(ResetSteps(StepFinally(Heap, f.step)))
           /\ gen' = [gen EXCEPT ![g] = [f EXCEPT !.pc = "line169",
                        !.messages = Append(@, [role |-> "user",
                            content |-> [message |-> ext[g].message,
                                         sources |-> f.sources]]),
                        !.source_urls = SourceUrls(f.sources),
                        !.calls = Append(@, "responses.create(stream)")]]
    /\ UNCHANGED <<ext, client, chat>>

\* lines 157-169: step 2's scope exits; the request and the citation index
RequestAnswer(g) ==
    /\ gen[g].pc = "line157"
    /\ LET f == gen[g]
       IN  /\ SetHeap(StepFinally(Heap, f.step))
           /\ gen' = [gen EXCEPT ![g] = [f EXCEPT !.pc = "line169",
                        !.messages = Append(@, [role |-> "user",
                            content |-> [message |-> ext[g].message,
                                         sources |-> f.sources]]),
                        !.source_urls = SourceUrls(f.sources),
                        !.calls = Append(@, "responses.create(stream)")]]
    /\ UNCHANGED <<ext, client, chat>>

\* lines 169-177: the stream is open; partial = ""
StreamOpened(g) ==
    /\ gen[g].pc = "line169"
    /\ gen' = [gen EXCEPT ![g].pc = "line177", ![g].response = ext[g].answer,
                          ![g].stream = "held", ![g].partial = << >>]
    /\ UNCHANGED <<current_steps, lists, dicts, yielders, ext, client, chat>>

\* fault variant of GenerationFailed: when the stream breaks, the text received
\* is yielded once more, as it is, before the error goes on
GenerationFailedFlush(g) ==
    /\ gen[g].pc \in {"line169", "line177"}
    /\ SetHeap(Heap)
    /\ gen' = [gen EXCEPT ![g].pc = "raised", ![g].error = "GenerationStreamError",
                          ![g].stream = IF @ = "held" THEN "released" ELSE @,
                          ![g].out = Append(@, Event(Heap, gen[g].partial,
                                                     lists[current_steps],
                                                     gen[g].partial))]
    /\ UNCHANGED <<ext, client, chat>>

\* lines 169, 177: the request fails, or the stream breaks
GenerationFailed(g) ==
    /\ gen[g].pc \in {"line169", "line177"}
    /\ Raise(g, Heap, "GenerationStreamError", FALSE)
    /\ UNCHANGED <<ext, client, chat>>


\* fault variant of Accumulate: the accumulator keeps only the newest fragment
AccumulateNewest(partial, delta) == delta

\* fault variant of Accumulate: the fragment is put in front of the accumulator
AccumulateInFront(partial, delta) == delta \o partial

\* partial += delta
Accumulate(partial, delta) == partial \o delta

\* fault variant of CitationIndex: the index is kept on the instance, where the
\* run that built its index last has put its own
CitationIndexOfInstance(g) ==
    LET others == {h \in Gens \ {g} : gen[h].pc \in {"line169", "line177", "line187"}}
    IN  IF others = {} THEN gen[g].source_urls
        ELSE gen[CHOOSE h \in others : TRUE].source_urls

\* source_urls as the replacement lambda of the run reads it: a local of the frame
CitationIndex(g) == gen[g].source_urls

\* lines 177-187: a text delta arrives; accumulate, rewrite, yield.  The stream
\* is finite: the last event it can deliver carries all the text still to come
TextDelta(g) ==
    /\ gen[g].pc = "line177"
    /\ Len(gen[g].chunks) < MaxChunks
    /\ \E n \in 1..Len(gen[g].response) :
           /\ Len(gen[g].chunks) = MaxChunks - 1 => n = Len(gen[g].response)
           /\ LET f       == gen[g]
                  delta   == SubSeq(f.response, 1, n)
                  partial == Accumulate(f.partial, delta)
                  processed_partial == Rewrite(CitationIndex(g), partial)
              IN  gen' = [gen EXCEPT ![g] = [f EXCEPT
                             !.pc = "line187",
                             !.response = SubSeq(@, n + 1, Len(@)),
                             !.partial = partial,
                             !.chunks = Append(@, [type |-> "response.output_text.delta",
                                                   delta |-> delta]),
                             !.out = Append(@, Event(Heap, processed_partial,
                                                     lists[current_steps], partial))]]
    /\ UNCHANGED <<current_steps, lists, dicts, yielders, ext, client, chat>>

\* fault variant of IgnoredChunk: the tests of lines 178 and 179 are missing,
\* and every event of the stream yields the text rewritten so far
IgnoredChunkEmitted(g) ==
    /\ gen[g].pc = "line177"
    /\ Len(gen[g].chunks) < MaxChunks
    /\ \E type \in {"response.output_text.delta", "response.created"} :
           gen' = [gen EXCEPT
                      ![g].chunks = Append(@, [type |-> type, delta |-> << >>]),
                      ![g].pc = "line187",
                      ![g].out = Append(@, Event(Heap,
                                     Rewrite(CitationIndex(g), gen[g].partial),
                                     lists[current_steps], gen[g].partial))]
    /\ UNCHANGED <<current_steps, lists, dicts, yielders, ext, client, chat>>

\* lines 177-179: an event of another type, or a text delta that is empty
IgnoredChunk(g) ==
    /\ gen[g].pc = "line177"
    /\ Len(gen[g].chunks) < MaxChunks
    /\ \E type \in {"response.output_text.delta", "response.created"} :
           gen' = [gen EXCEPT ![g].chunks = Append(@, [type |-> type, delta |-> << >>])]
    /\ UNCHANGED <<current_steps, lists, dicts, yielders, ext, client, chat>>

\* line 187 to 177: the caller resumes the generator, which reads the next chunk
NextChunk(g) ==
    /\ gen[g].pc = "line187"
    /\ gen' = [gen EXCEPT ![g].pc = "line177"]
    /\ UNCHANGED <<current_steps, lists, dicts, yielders, ext, client, chat>>

\* fault variant of StreamEnded: the end of the stream is not seen, and the
\* loop waits for a chunk that does not come
StreamEndedHangs(g) ==
    /\ gen[g].pc = "line177"
    /\ gen[g].response = << >>
    /\ UNCHANGED vars

\* line 177: the stream ends and process returns
StreamEnded(g) ==
    /\ gen[g].pc = "line177"
    /\ gen[g].response = << >>
    /\ gen' = [gen EXCEPT ![g].pc = "returned", ![g].stream = "released"]
    /\ UNCHANGED <<current_steps, lists, dicts, yielders, ext, client, chat>>

\* fault variant of Close: the stream is an attribute of the instance, which
\* outlives the frame
CloseKeepsStream(g) ==
    /\ gen[g].pc \in YieldLines \cup {"created"}
    /\ SetHeap(IF gen[g].pc \in {"line144", "line148", "line153", "line157"}
               THEN StepFinally(Heap, gen[g].step) ELSE Heap)
    /\ gen' = [gen EXCEPT ![g].pc = "closed"]
    /\ UNCHANGED <<ext, client, chat>>

\* the caller closes the generator at a yield: GeneratorExit leaves the frame,
\* and with the frame goes its reference to the stream, the only one
Close(g) ==
    /\ gen[g].pc \in YieldLines \cup {"created"}
    /\ SetHeap(IF gen[g].pc \in {"line144", "line148", "line153", "line157"}
               THEN StepFinally(Heap, gen[g].step) ELSE Heap)
    /\ gen' = [gen EXCEPT ![g].pc = "closed",
                          ![g].stream = IF @ = "held" THEN "released" ELSE @]
    /\ UNCHANGED <<ext, client, chat>>

(***************************************************************************)
(* A direct client of the step API: opens scopes with step(), calls start  *)
(* and complete on the handles it holds, and leaves the scopes.            *)
(***************************************************************************)
Titles == {"Searching articles"}
Contents == {<< >>, <<"c1">>, <<"c2">>}

NoClient ==
    [calls |-> 0, op |-> "none", handle |-> 0, content |-> << >>, ret |-> << >>,
     raised |-> FALSE]

ClientEnter ==
    /\ Len(yielders) < MaxScopes
    /\ \E title \in Titles, show_steps \in BOOLEAN :
           LET E == StepEnter(Heap, title, show_steps)
           IN  /\ SetHeap(E.H)
               /\ client' = [client EXCEPT !.op = "step", !.handle = E.handle,
                                           !.content = << >>, !.ret = << >>,
                                           !.raised = FALSE]
    /\ UNCHANGED <<gen, ext, chat>>

ClientStart ==
    /\ client.calls < MaxCalls
    /\ \E y \in DOMAIN yielders, content \in Contents :
           LET S == YielderStart(Heap, y, content)
           IN  /\ SetHeap(S.H)
               /\ client' = [calls |-> client.calls + 1, op |-> "start", handle |-> y,
                             content |-> content, ret |-> S.ret, raised |-> S.raised]
    /\ UNCHANGED <<gen, ext, chat>>

ClientComplete ==
    /\ client.calls < MaxCalls
    /\ \E y \in DOMAIN yielders, content \in Contents :
           LET C == YielderComplete(Heap, y, content)
           IN  /\ SetHeap(C.H)
               /\ client' = [calls |-> client.calls + 1, op |-> "complete",
                             handle |-> y, content |-> content, ret |-> C.ret,
                             raised |-> C.raised]
    /\ UNCHANGED <<gen, ext, chat>>

ClientExit ==
    /\ \E y \in DOMAIN yielders :
           /\ yielders[y].scope = "open"
           /\ SetHeap(StepFinally(Heap, y))
           /\ client' = [client EXCEPT !.op = "exit", !.handle = y,
                                       !.content = << >>, !.ret = << >>,
                                       !.raised = FALSE]
    /\ UNCHANGED <<gen, ext, chat>>


(***************************************************************************)
(* chat_with_dewey of main.py: the handler of a submitted message.  It is  *)
(* a generator: each yield is an update of the chat display and of the     *)
(* session state.                                                          *)
(***************************************************************************)
\* gr.State({"session_id": None, "user_data": {}})
NoSession == [session_id |-> "None", user_data |-> << >>]

\* the frame of a call before it is made.  Beside the locals message, history
\* and history_length it keeps prior, the history as it was passed; consumed,
\* the number of events taken from process; updates, what the call has yielded
NoChatFrame ==
    [pc |-> "none", message |-> << >>, history |-> << >>, history_length |-> 0,
     prior |-> << >>, consumed |-> 0, updates |-> << >>]

\* chatbot is the value of the gr.Chatbot component, empty when the page loads
NoChat ==
    [session_state |-> NoSession, chatbot |-> << >>,
     frames |-> [g \in Gens |-> NoChatFrame]]

\* lines 32-37: the session is set up at its first message, and the message is
\* counted
CountMessage(session_state) ==
    LET s == IF session_state.session_id = "None"
             THEN [session_id |-> "uuid",
                   user_data |-> ("message_count" :> 0) @@ session_state.user_data]
             ELSE session_state
    IN  [s EXCEPT !.user_data["message_count"] = @ + 1]

\* lines 48-56: one turn of the assistant for each step dict, with its content
\* or '' and its title and status as metadata
StepTurns(steps) ==
    [i \in DOMAIN steps |->
        [role |-> "assistant", content |-> GetContent(steps[i]),
         metadata |-> [title |-> steps[i].title, status |-> steps[i].status]]]

\* the calls before call g are over: the handler runs one submission at a time
ChatInTurn(g) == \A h \in Gens : h < g => chat.frames[h].pc \in {"returned", "raised"}

\* lines 30-41: a message is submitted with the display as it is; the call runs
\* to its first yield
ChatCall(g) ==
    /\ chat.frames[g].pc = "none"
    /\ ext[g].called
    /\ ChatInTurn(g)
    /\ LET message == ext[g].message
           history == Append(chat.chatbot, [role |-> "user", content |-> message])
           session == CountMessage(chat.session_state)
       IN  chat' = [session_state |-> session,
                    chatbot |-> history,
                    frames |-> [chat.frames EXCEPT ![g] =
                        [NoChatFrame EXCEPT
                            !.pc = "line41", !.message = message,
                            !.history = history, !.prior = chat.chatbot,
                            !.updates = <<[history |-> history,
                                           session_state |-> session]>>]]]
    /\ UNCHANGED <<current_steps, lists, dicts, yielders, gen, ext, client>>

\* lines 45-46: resumed, the call takes the length of the history and calls
\* process(message, history[:-1]), with show_steps left at its default
ChatStart(g) ==
    /\ chat.frames[g].pc = "line41"
    /\ gen[g].pc = "none"
    /\ LET c == chat.frames[g]
           passed == SubSeq(c.history, 1, Len(c.history) - 1)
       IN  /\ chat' = [chat EXCEPT !.frames[g].pc = "line46",
                                   !.frames[g].history_length = Len(c.history)]
           /\ ext' = [ext EXCEPT ![g].message = c.message, ![g].history = passed,
                                 ![g].passed = passed]
           /\ gen' = [gen EXCEPT ![g].pc = "created", ![g].show_steps = TRUE]
    /\ UNCHANGED <<current_steps, lists, dicts, yielders, client>>

\* line 46: the for statement has resumed process and waits for its next event
Pulled(g) ==
    /\ chat.frames[g].pc = "line46"
    /\ chat.frames[g].consumed = Len(gen[g].out)

\* fault variant of ChatUpdate: line 47 is missing, and the turns of an update
\* are appended to those of the update before
ChatUpdateAccumulates(g) ==
    /\ chat.frames[g].pc = "line46"
    /\ chat.frames[g].consumed < Len(gen[g].out)
    /\ LET c == chat.frames[g]
           e == gen[g].out[c.consumed + 1]
           history == c.history
                          \o StepTurns([i \in DOMAIN e.steps |-> dicts[e.steps[i]]])
                          \o <<[role |-> "assistant", content |-> e.text]>>
       IN  chat' = [chat EXCEPT
                       !.chatbot = history,
                       !.frames[g].pc = "line62",
                       !.frames[g].history = history,
                       !.frames[g].consumed = @ + 1,
                       !.frames[g].updates =
                           Append(@, [history |-> history,
                                      session_state |-> chat.session_state])]
    /\ UNCHANGED <<current_steps, lists, dicts, yielders, gen, ext, client>>

\* lines 46-62: an event of process arrives; history is cut back to what it was
\* before the loop, then gets a turn for each step of the event and the turn of
\* the answer, and is yielded
ChatUpdate(g) ==
    /\ chat.frames[g].pc = "line46"
    /\ chat.frames[g].consumed < Len(gen[g].out)
    /\ LET c == chat.frames[g]
           e == gen[g].out[c.consumed + 1]
           history == SubSeq(c.history, 1, c.history_length)
                          \o StepTurns([i \in DOMAIN e.steps |-> dicts[e.steps[i]]])
                          \o <<[role |-> "assistant", content |-> e.text]>>
       IN  chat' = [chat EXCEPT
                       !.chatbot = history,
                       !.frames[g].pc = "line62",
                       !.frames[g].history = history,
                       !.frames[g].consumed = @ + 1,
                       !.frames[g].updates =
                           Append(@, [history |-> history,
                                      session_state |-> chat.session_state])]
    /\ UNCHANGED <<current_steps, lists, dicts, yielders, gen, ext, client>>

\* line 62 to line 46: resumed after its yield, the call asks process for the
\* next event
ChatResume(g) ==
    /\ chat.frames[g].pc = "line62"
    /\ chat' = [chat EXCEPT !.frames[g].pc = "line46"]
    /\ UNCHANGED <<current_steps, lists, dicts, yielders, gen, ext, client>>

\* line 46: process has returned, the loop and the call end
ChatReturn(g) ==
    /\ Pulled(g)
    /\ gen[g].pc = "returned"
    /\ chat' = [chat EXCEPT !.frames[g].pc = "returned"]
    /\ UNCHANGED <<current_steps, lists, dicts, yielders, gen, ext, client>>

\* line 46: an exception of process passes through the call, which has no
\* handler
ChatRaise(g) ==
    /\ Pulled(g)
    /\ gen[g].pc = "raised"
    /\ chat' = [chat EXCEPT !.frames[g].pc = "raised"]
    /\ UNCHANGED <<current_steps, lists, dicts, yielders, gen, ext, client>>


(***************************************************************************)
(* The inputs: what the caller passes and what the services answer.        *)
(***************************************************************************)
\* the url of the article ranked i in the archive of the model
ArchiveUrls == <<<<"u">>, <<"v">>, <<"w">>, <<"x">>, <<"y">>>>

\* a hit: its content has a CR LF pair, a LF and a CR
Page(url) ==
    [url |-> url, headline |-> <<"h">>,
     content |-> <<"p", "\r", "\n", "q", "\n", "r", "\r">>]

\* the first n articles of the archive, in rank order
Ranked(n) == [i \in 1..n |-> Page(ArchiveUrls[i])]

\* every result list of at most n hits over two urls, duplicates included
RECURSIVE ResultLists(_)
ResultLists(n) ==
    IF n = 0 THEN {<< >>}
    ELSE LET shorter == ResultLists(n - 1)
         IN  shorter \cup {Append(r, Page(u)) :
                              r \in {t \in shorter : Len(t) = n - 1},
                              u \in {ArchiveUrls[1], ArchiveUrls[2]}}

Marker(ds) == <<"[", "S", "R", "C">> \o ds \o <<"]">>

\* what answer texts are made of: plain text, brackets, digits, markers
Pieces ==
    {<<"a">>, <<"]">>, <<"1">>, <<"[", "S", "R", "C">>,
     Marker(<<"3">>), Marker(<<"0">>), Marker(<<"4">>), Marker(<<"0", "3">>)}

\* the answers of the rewriting specification: one piece, two pieces, or a
\* marker inside plain text
Answers ==
    Pieces \cup {p \o q : p \in Pieces, q \in Pieces}
           \cup {<<"a">> \o Marker(ds) \o <<"a">> : ds \in {<<"3">>, <<"1", "3">>}}

PlainMetadata ==
    [question |-> <<"q">>, date_range |-> [start_date |-> << >>, end_date |-> << >>],
     authors |-> << >>]

FilterMetadata ==
    [question |-> <<"q">>,
     date_range |-> [start_date |-> <<"2", "0", "2", "4">>, end_date |-> << >>],
     authors |-> <<[name |-> <<"A">>], [name |-> <<"B">>], [name |-> <<"C">>]>>]

\* the conversation before the call, as chat_with_dewey keeps it: the turn of
\* the user and a turn of the assistant, which has a metadata entry
TurnsBefore ==
    <<[role |-> "user", content |-> <<"hi">>],
      [role |-> "assistant", content |-> <<"ok">>,
       metadata |-> [title |-> "Searching articles", status |-> "done"]]>>

\* what one call of process is given and what the services answer to it; passed
\* keeps the history as the caller passed it
World(metadata, hits, answer) ==
    [called |-> TRUE, message |-> <<"m">>,
     history |-> TurnsBefore, passed |-> TurnsBefore,
     metadata |-> metadata, hits |-> hits, answer |-> answer]

NoCall == [World(NoMetadata, << >>, << >>) EXCEPT !.called = FALSE]

\* the runs of the pipeline specification: every result list, one short answer
\* or a stream without text
Worlds ==
    {World(m, r, a) :
        m \in {PlainMetadata, FilterMetadata},
        r \in ResultLists(MaxSources),
        a \in {Marker(<<"2">>), << >>}}

\* the runs of the rewriting specification: every answer, two or three sources
TextWorlds == {World(PlainMetadata, Ranked(n), a) : n \in {2, 3}, a \in Answers}

\* two runs on the one instance, with their own sources and answers
ConcWorlds ==
    <<World(PlainMetadata, Ranked(2), Marker(<<"2">>)),
      World(FilterMetadata, <<Page(ArchiveUrls[3])>>, <<"a">>)>>

\* two runs on the one instance, the second with one source and an answer that
\* cites a second
SeqWorlds ==
    <<World(PlainMetadata, Ranked(2), <<"a", "b">>),
      World(FilterMetadata, <<Page(ArchiveUrls[3])>>, Marker(<<"2">>))>>

\* the fragments of the worked example: "City Hall held ", "a hearing [SR",
\* "C1]. Officials [SRC2] confirmed it."
ExampleFragments ==
    <<<<"C", "i", "t", "y", " ", "H", "a", "l", "l", " ", "h", "e", "l", "d",
      " ">>,
      <<"a", " ", "h", "e", "a", "r", "i", "n", "g", " ", "[", "S", "R">>,
      <<"C", "1", "]", ".", " ", "O", "f", "f", "i", "c", "i", "a", "l", "s",
      " ", "[", "S", "R", "C", "2", "]", " ", "c", "o", "n", "f", "i", "r",
      "m", "e", "d", " ", "i", "t", ".">>>>

\* the run of the worked example: two sources, the answer of the three fragments
ExampleWorlds == {World(FilterMetadata, Ranked(2), Flatten(ExampleFragments))}

\* answers whose markers have leading zeros, and texts close to a marker that
\* are none: no digit, lower case, a space before the digit
LabelAnswers ==
    {Marker(<<"0", "3">>), Marker(<<"0", "1">>) \o Marker(<<"1">>),
     Marker(<<"0", "0", "2">>),
     <<"[", "S", "R", "C", "]">>, <<"[", "s", "r", "c", "1", "]">>,
     <<"[", "S", "R", "C", " ", "1", "]">>}

LabelWorlds == {World(PlainMetadata, Ranked(n), a) : n \in {2, 3}, a \in LabelAnswers}

\* two messages submitted in one session, and what the services answer to each
ChatWorlds ==
    <<World(PlainMetadata, Ranked(2), Marker(<<"2">>)),
      World(FilterMetadata, Ranked(1), <<"a">>)>>

\* the authors the model service may name, and the lists of them without
\* repetition, in every order
AuthorNames == {<<"A">>, <<"B">>, <<"C">>, <<"D">>}

AuthorLists ==
    {names \in UNION {[1..n -> AuthorNames] : n \in 0..4} :
        \A i, j \in DOMAIN names : names[i] = names[j] => i = j}

\* every metadata with or without each date, with no author or up to four
Metadatas ==
    {[question |-> <<"q">>,
      date_range |-> [start_date |-> s, end_date |-> e],
      authors |-> [i \in DOMAIN names |-> [name |-> names[i]]]] :
        s \in {<< >>, <<"2", "0", "2", "4">>},
        e \in {<< >>, <<"2", "0", "2", "5">>},
        names \in AuthorLists}

\* the runs of the summary specification: every metadata, one hit, a short answer
MetaWorlds == {World(m, Ranked(1), <<"a">>) : m \in Metadatas}

\* the runs of the termination specification: an answer with a marker, one
\* without
LiveWorlds ==
    {World(PlainMetadata, Ranked(2), a) : a \in {Marker(<<"2">>), <<"a", "b", "c", "d">>}}

(***************************************************************************)
(* Specifications.                                                         *)
(***************************************************************************)
InitObjects ==
    /\ current_steps = 0
    /\ lists = << >>
    /\ dicts = << >>
    /\ yielders = << >>
    /\ gen = [g \in Gens |-> NoFrame]
    /\ client = NoClient
    /\ chat = NoChat

\* one call of process, any result list
Init ==
    /\ InitObjects
    /\ \E w \in Worlds : ext = [g \in Gens |-> IF g = 1 THEN w ELSE NoCall]

\* one call of process, any answer text
InitText ==
    /\ InitObjects
    /\ \E w \in TextWorlds : ext = [g \in Gens |-> IF g = 1 THEN w ELSE NoCall]

\* no call of process: the step API used directly
InitStep ==
    /\ InitObjects
    /\ ext = [g \in Gens |-> NoCall]

\* two calls of process, free to interleave at every suspension point
InitConc ==
    /\ InitObjects
    /\ ext = [g \in Gens |-> ConcWorlds[g]]

\* two calls of process, the second made when the first run has ended
InitSeq ==
    /\ InitObjects
    /\ ext = [g \in Gens |-> SeqWorlds[g]]

\* one call of process, the answer of the worked example
InitLabel ==
    /\ InitObjects
    /\ \E w \in LabelWorlds : ext = [g \in Gens |-> IF g = 1 THEN w ELSE NoCall]

\* a page just loaded: an empty display, a new session, two messages to come
InitChat ==
    /\ InitObjects
    /\ ext = [g \in Gens |-> ChatWorlds[g]]

InitExample ==
    /\ InitObjects
    /\ \E w \in ExampleWorlds : ext = [g \in Gens |-> IF g = 1 THEN w ELSE NoCall]

\* one call of process, any metadata
InitMeta ==
    /\ InitObjects
    /\ \E w \in MetaWorlds : ext = [g \in Gens |-> IF g = 1 THEN w ELSE NoCall]

\* one call of process, to be run to its end
InitLive ==
    /\ InitObjects
    /\ \E w \in LiveWorlds : ext = [g \in Gens |-> IF g = 1 THEN w ELSE NoCall]

Next ==
    \E g \in Gens :
        \/ Call(g)
        \/ Begin(g)
        \/ GenerateMetadata(g)
        \/ MetadataReturned(g)
        \/ MetadataFailed(g)
        \/ SearchingArticles(g)
        \/ CreateEmbedding(g)
        \/ Search(g)
        \/ SearchReturned(g)
        \/ RetrievalFailed(g)
        \/ RequestAnswer(g)
        \/ StreamOpened(g)
        \/ GenerationFailed(g)
        \/ TextDelta(g)
        \/ IgnoredChunk(g)
        \/ NextChunk(g)
        \/ StreamEnded(g)
        \/ Close(g)

\* a run in which every service answers, the stream carries text deltas only and
\* the caller reads it to its end
NextText ==
    \E g \in Gens :
        \/ Call(g)
        \/ Begin(g)
        \/ GenerateMetadata(g)
        \/ MetadataReturned(g)
        \/ SearchingArticles(g)
        \/ CreateEmbedding(g)
        \/ Search(g)
        \/ SearchReturned(g)
        \/ RequestAnswer(g)
        \/ StreamOpened(g)
        \/ TextDelta(g)
        \/ NextChunk(g)
        \/ StreamEnded(g)

\* the runs before run g have ended: returned, failed or closed by the caller
InTurn(g) == \A h \in Gens : h < g => gen[h].pc \in EndLines

\* one run after the other, with failures and early close
NextSeq ==
    \E g \in Gens :
        /\ InTurn(g)
        /\ \/ Call(g)
           \/ Begin(g)
           \/ GenerateMetadata(g)
           \/ MetadataReturned(g)
           \/ MetadataFailed(g)
           \/ SearchingArticles(g)
           \/ CreateEmbedding(g)
           \/ Search(g)
           \/ SearchReturned(g)
           \/ RetrievalFailed(g)
           \/ RequestAnswer(g)
           \/ StreamOpened(g)
           \/ GenerationFailed(g)
           \/ TextDelta(g)
           \/ NextChunk(g)
           \/ StreamEnded(g)
           \/ Close(g)

\* the messages of a session, handled one after the other; process runs when
\* the handler asks it for an event
NextChat ==
    \E g \in Gens :
        \/ ChatCall(g)
        \/ ChatStart(g)
        \/ ChatUpdate(g)
        \/ ChatResume(g)
        \/ ChatReturn(g)
        \/ ChatRaise(g)
        \/ /\ Pulled(g)
           /\ \/ Begin(g)
              \/ GenerateMetadata(g)
              \/ MetadataReturned(g)
              \/ MetadataFailed(g)
              \/ SearchingArticles(g)
              \/ CreateEmbedding(g)
              \/ Search(g)
              \/ SearchReturned(g)
              \/ RetrievalFailed(g)
              \/ RequestAnswer(g)
              \/ StreamOpened(g)
              \/ GenerationFailed(g)
              \/ TextDelta(g)
              \/ IgnoredChunk(g)
              \/ NextChunk(g)
              \/ StreamEnded(g)

NextStep == ClientEnter \/ ClientStart \/ ClientComplete \/ ClientExit

Spec == Init /\ [][Next]_vars

SpecText == InitText /\ [][NextText]_vars

SpecStep == InitStep /\ [][NextStep]_vars

SpecConc == InitConc /\ [][NextText]_vars

SpecSeq == InitSeq /\ [][NextSeq]_vars

SpecLabel == InitLabel /\ [][NextText]_vars

SpecChat == InitChat /\ [][NextChat]_vars

SpecExample == InitExample /\ [][NextText]_vars

SpecMeta == InitMeta /\ [][NextText]_vars

\* every service answers in the end and the caller keeps pulling: a step that
\* can be taken is taken
SpecLive == InitLive /\ [][NextText]_vars /\ WF_vars(NextText)


(***************************************************************************)
(* Properties.                                                             *)
(***************************************************************************)
IsTextEvent(e) == e.text # << >>
IsTextDelta(c) == c.type = "response.output_text.delta" /\ c.delta # << >>

\* the answer text events a run has emitted, in order
TextEvents(f) == SelectSeq(f.out, IsTextEvent)

\* the non-empty text fragments a run has received, in arrival order
Fragments(f) ==
    LET cs == SelectSeq(f.chunks, IsTextDelta) IN [i \in DOMAIN cs |-> cs[i].delta]

\* the whole answer has been delivered and emitted
Delivered(g) ==
    /\ gen[g].pc \in {"line187", "line177", "returned", "closed"}
    /\ Fragments(gen[g]) # << >>
    /\ Flatten(Fragments(gen[g])) = ext[g].answer

\* [[ds]](url) as the claims spell it
Rendered(ds, url) == <<"[", "[">> \o ds \o <<"]", "]", "(">> \o url \o <<")">>

\* C1: whatever the split into non-empty fragments, when the answer contains
\* [SRC3] exactly once and at least three sources were retrieved, the last text
\* emitted contains [[3]](url of source 3) exactly once and no [SRC3], and it is
\* the rewriting of the whole answer
C1_SplitMarkerRewritten ==
    \A g \in Gens :
        (/\ Delivered(g)
         /\ Count(Marker(<<"3">>), ext[g].answer) = 1
         /\ Len(ext[g].hits) >= 3)
        => LET te   == TextEvents(gen[g])
               last == te[Len(te)].text
           IN  /\ Count(Rendered(<<"3">>, ext[g].hits[3].url), last) = 1
               /\ Count(Marker(<<"3">>), last) = 0
               /\ last = Rewrite(gen[g].source_urls, ext[g].answer)

\* C1 witness: an answer with [SRC3] delivered in fragments that split the marker
C1_Witness ==
    \E g \in Gens :
        /\ Delivered(g)
        /\ Count(Marker(<<"3">>), ext[g].answer) = 1
        /\ Len(ext[g].hits) >= 3
        /\ Len(Fragments(gen[g])) >= 2
        /\ \A i \in DOMAIN Fragments(gen[g]) :
               Count(Marker(<<"3">>), Fragments(gen[g])[i]) = 0

\* C2: the i-th text emission is the rewriting of the concatenation of the first
\* i fragments received, and the accumulator is exactly that concatenation, a
\* prefix of the answer the service streams
C2_EmissionOfPrefix ==
    \A g \in Gens :
        LET f  == gen[g]
            te == TextEvents(f)
            fr == Fragments(f)
        IN  /\ Len(te) = Len(fr)
            /\ f.partial = Flatten(fr)
            /\ f.pc \in {"line177", "line187"} => f.partial \o f.response = ext[g].answer
            /\ \A i \in DOMAIN te :
                   /\ te[i].partial = Flatten(SubSeq(fr, 1, i))
                   /\ te[i].text = Rewrite(f.source_urls, Flatten(SubSeq(fr, 1, i)))

\* C2 witness: three fragments received and three texts emitted
C2_Witness ==
    \E g \in Gens :
        /\ Len(Fragments(gen[g])) >= 3
        /\ Len(TextEvents(gen[g])) >= 3


\* the numbers the markers of the answers carry
DigitStrings == {<<"0">>, <<"1">>, <<"3">>, <<"4">>, <<"0", "3">>, <<"1", "3">>, <<"1", "1">>}

\* p[j..e] is a marker: [SRC, one digit or more, ]
MarkerFromTo(p, j, e) ==
    /\ j >= 1 /\ e >= j + 5 /\ e <= Len(p)
    /\ SubSeq(p, j, j + 3) = <<"[", "S", "R", "C">>
    /\ \A i \in (j + 4)..(e - 1) : p[i] \in Digits
    /\ p[e] = "]"

\* a complete marker starts at p[j]
MarkerAt(p, j) == \E e \in j..Len(p) : MarkerFromTo(p, j, e)

\* the number of complete markers of p
NumMarkers(p) == Cardinality({j \in 1..Len(p) : MarkerAt(p, j)})

\* t is a marker still open: a non-empty proper prefix of [SRC<digits>]
OpenMarker(t) ==
    /\ Len(t) >= 1
    /\ \/ IsPrefix(t, <<"[", "S", "R", "C">>)
       \/ /\ IsPrefix(<<"[", "S", "R", "C">>, t)
          /\ \A i \in 5..Len(t) : t[i] \in Digits

\* the last k characters of s
Last(s, k) == SubSeq(s, Len(s) - k + 1, Len(s))

\* C3: a complete marker whose number has no source (0, or above the number of
\* sources) is rendered as [[k]](#) in every emission, none is left unrewritten,
\* and the fragment that completes it yields its emission like any other
C3_UnresolvableRendersAnchor ==
    \A g \in Gens :
        LET f  == gen[g]
            te == TextEvents(f)
        IN  /\ Len(te) = Len(Fragments(f))
            /\ \A i \in DOMAIN te : \A ds \in DigitStrings :
                   DigitsToInt(ds) \notin 1..Len(ext[g].hits)
                   => /\ Count(Rendered(ds, <<"#">>), te[i].text)
                            = Count(Marker(ds), te[i].partial)
                      /\ Count(Marker(ds), te[i].text) = 0

\* C3 witness: an emission for a text with [SRC0] and with a marker above the
\* number of sources
C3_Witness ==
    \E g \in Gens : \E i \in DOMAIN TextEvents(gen[g]) :
        LET e == TextEvents(gen[g])[i]
        IN  /\ Count(Marker(<<"0">>), e.partial) = 1
            /\ Count(Rendered(<<"0">>, <<"#">>), e.text) = 1
            /\ Count(Marker(<<"4">>), e.partial) = 1
            /\ Len(ext[g].hits) < 4
            /\ Count(Rendered(<<"4">>, <<"#">>), e.text) = 1

\* C4: a marker that the end of the accumulated text leaves open is the end of
\* the emitted text, character for character, and the emitted text holds one
\* citation per complete marker of the accumulated text and no more
C4_OpenMarkerLiteral ==
    \A g \in Gens : \A i \in DOMAIN TextEvents(gen[g]) :
        LET e == TextEvents(gen[g])[i]
        IN  /\ \A k \in 1..Len(e.partial) :
                   OpenMarker(Last(e.partial, k)) => IsSuffix(Last(e.partial, k), e.text)
            /\ Count(<<"]", "]", "(">>, e.text) = NumMarkers(e.partial)

\* C4 witness: [SRC0 is emitted as it is, and the next emission, with the "]",
\* shows the citation
C4_Witness ==
    \E g \in Gens : \E i \in DOMAIN TextEvents(gen[g]) :
        LET te == TextEvents(gen[g])
        IN  /\ i > 1
            /\ IsSuffix(<<"[", "S", "R", "C", "0">>, te[i - 1].partial)
            /\ IsSuffix(<<"[", "S", "R", "C", "0">>, te[i - 1].text)
            /\ NumMarkers(te[i].partial) = NumMarkers(te[i - 1].partial) + 1
            /\ IsPrefix(te[i - 1].partial \o <<"]">>, te[i].partial)

\* C5: the emitted texts never get shorter from one emission to the next, and
\* the accumulated text of an emission is a prefix of that of the next
C5_LengthsNonDecreasing ==
    \A g \in Gens :
        LET te == TextEvents(gen[g])
        IN  \A i \in 1..(Len(te) - 1) :
                /\ Len(te[i].text) <= Len(te[i + 1].text)
                /\ IsPrefix(te[i].partial, te[i + 1].partial)

\* C5 witness: two emissions, the second completing a marker the first left open
C5_Witness ==
    \E g \in Gens : \E i \in DOMAIN TextEvents(gen[g]) :
        LET te == TextEvents(gen[g])
        IN  /\ i > 1
            /\ \E k \in 1..Len(te[i - 1].partial) : OpenMarker(Last(te[i - 1].partial, k))
            /\ NumMarkers(te[i].partial) > NumMarkers(te[i - 1].partial)

\* a marker of q starts in p and ends after it: the boundary splits it
SplitAt(p, q) == {j \in 1..Len(p) : MarkerAt(q, j) /\ ~MarkerAt(p, j)}

\* C6 as stated: each emitted text is a proper prefix of the next one
C6_StrictPrefixExtension ==
    \A g \in Gens :
        LET te == TextEvents(gen[g])
        IN  \A i \in 1..(Len(te) - 1) :
                /\ IsPrefix(te[i].text, te[i + 1].text)
                /\ Len(te[i].text) < Len(te[i + 1].text)

\* C6 amended: each emitted text is strictly longer than the one before; the one
\* before is a prefix of it unless the boundary of the two fragments splits a
\* marker, and then all of it up to the open marker is
C6_PrefixUnlessMarkerSplit ==
    \A g \in Gens :
        LET te == TextEvents(gen[g])
        IN  \A i \in 1..(Len(te) - 1) :
                LET p == te[i].partial
                    q == te[i + 1].partial
                IN  /\ Len(te[i].text) < Len(te[i + 1].text)
                    /\ SplitAt(p, q) = {} => IsPrefix(te[i].text, te[i + 1].text)
                    /\ \A j \in SplitAt(p, q) :
                           IsPrefix(SubSeq(te[i].text, 1, Len(te[i].text) - (Len(p) - j + 1)),
                                    te[i + 1].text)

\* C6 witness: a marker split by the boundary, and the next text not an
\* extension of the one before
C6_Witness ==
    \E g \in Gens : \E i \in DOMAIN TextEvents(gen[g]) :
        LET te == TextEvents(gen[g])
        IN  /\ i > 1
            /\ SplitAt(te[i - 1].partial, te[i].partial) # {}
            /\ ~IsPrefix(te[i - 1].text, te[i].text)


\* the hits in the order perm gives: hit perm[i] at rank i
Permuted(hits, perm) == [i \in DOMAIN hits |-> hits[perm[i]]]

\* the permutations of 1..n
RankOrders(n) == {perm \in [1..n -> 1..n] : \A i, j \in 1..n : perm[i] = perm[j] => i = j}

\* C7: the citation index of a run maps i, for each rank i of the retrieved
\* sources and for nothing else, to the url of the i-th hit, equal urls
\* included; for the same hits in another order the index, when it is built, is
\* permuted alike
C7_IndexPositional ==
    \A g \in Gens :
        gen[g].pc \in {"line169", "line177", "line187", "returned"}
        => LET hits == ext[g].hits
               idx  == gen[g].source_urls
           IN  /\ DOMAIN idx = 1..Len(hits)
               /\ \A i \in 1..Len(hits) : idx[i] = hits[i].url
               /\ gen[g].pc = "line169" => \A perm \in RankOrders(Len(hits)) :
                      LET other == SourceUrls(SourcesOf(Permuted(hits, perm)))
                      IN  /\ DOMAIN other = 1..Len(hits)
                          /\ \A i \in 1..Len(hits) : other[i] = idx[perm[i]]

\* C7 witness: an index over three hits, two of them with the same url
C7_Witness ==
    \E g \in Gens :
        /\ gen[g].pc = "line177"
        /\ Len(ext[g].hits) = 3
        /\ ext[g].hits[1].url = ext[g].hits[3].url
        /\ ext[g].hits[1].url # ext[g].hits[2].url
        /\ DOMAIN gen[g].source_urls = {1, 2, 3}

\* the step dicts a run has begun
Begun(f) == {yielders[y].step : y \in {f.handles[i] : i \in DOMAIN f.handles}}

\* C8: when a run with step reporting has ended, by returning, by an exception
\* or by the caller closing it, every step it began has status done
C8_BegunStepsDone ==
    \A g \in Gens :
        (gen[g].show_steps /\ gen[g].pc \in EndLines)
        => \A d \in Begun(gen[g]) : dicts[d].status = "done"

\* C8 witness: intent extraction failed, so complete was never called on the
\* step, and the step is done
C8_Witness ==
    \E g \in Gens :
        /\ gen[g].show_steps
        /\ gen[g].pc = "raised"
        /\ gen[g].error = "IntentExtractionError"
        /\ Len(gen[g].out) = 1
        /\ Begun(gen[g]) # {}
        /\ \A d \in Begun(gen[g]) : dicts[d].status = "done"

\* C9: the first call of start on a handle returns the snapshot, with empty text
\* and the steps of the list, and sets the content if one is given; every later
\* call returns nothing and changes no object
C9_StartOnlyOnce ==
    [][(client'.op = "start" /\ client'.calls = client.calls + 1 /\ ~client'.raised)
       => LET y == client'.handle
              h == yielders[y]
          IN  IF ~h.has_started
              THEN /\ client'.ret = <<[text |-> << >>, steps |-> lists[h.steps_list]]>>
                   /\ yielders'[y].has_started
                   /\ dicts'[h.step] = IF client'.content # << >>
                                       THEN SetContent(dicts[h.step], client'.content)
                                       ELSE dicts[h.step]
                   /\ \A d \in DOMAIN dicts : d # h.step => dicts'[d] = dicts[d]
                   /\ lists' = lists
              ELSE /\ client'.ret = << >>
                   /\ UNCHANGED <<current_steps, lists, dicts, yielders>>]_vars

\* C9 witness: start was called with a content on a handle already started, and
\* returned nothing
C9_Witness ==
    /\ client.op = "start"
    /\ client.content # << >>
    /\ ~client.raised
    /\ client.ret = << >>
    /\ yielders[client.handle].has_started
    /\ GetContent(dicts[yielders[client.handle].step]) # client.content

\* C10 as stated: every snapshot emitted still shows, for each of its steps, the
\* status and content it showed when it was emitted
C10_SnapshotsNeverChange ==
    \A g \in Gens : \A i \in DOMAIN gen[g].out :
        LET e == gen[g].out[i]
        IN  \A k \in DOMAIN e.steps : dicts[e.steps[k]] = e.view[k]

\* the errors a failing service raises in process
ServiceErrors == {"IntentExtractionError", "RetrievalError", "GenerationStreamError"}

\* C11 as stated: a run with step reporting disabled emits no step event and
\* fails only where a service fails, as the run with reporting enabled does
C11_DisabledReportingSamePipeline ==
    \A g \in Gens :
        ~gen[g].show_steps
        => /\ \A i \in DOMAIN gen[g].out : IsTextEvent(gen[g].out[i])
           /\ gen[g].pc = "raised" => gen[g].error \in ServiceErrors

\* the step dicts a run has begun, in the order it began them
OwnSteps(f) == [i \in DOMAIN f.handles |-> yielders[f.handles[i]].step]

\* C12 as stated: every snapshot a run emitted holds steps of that run only, the
\* first ones it began and in that order, and the latest snapshot holds every
\* step the run has begun
C12_RunOwnsItsSteps ==
    \A g \in Gens :
        (gen[g].show_steps /\ gen[g].out # << >>)
        => LET f == gen[g]
           IN  /\ \A i \in DOMAIN f.out :
                      /\ f.out[i].steps # << >>
                      /\ IsPrefix(f.out[i].steps, OwnSteps(f))
               /\ f.out[Len(f.out)].steps = OwnSteps(f)


\* C13: with two runs interleaved, the i-th answer text of a run is the rewriting
\* of its own first i fragments with the index of its own hits, and its
\* accumulator holds its own fragments and nothing else
C13_TextsOfOwnInputsOnly ==
    \A g \in Gens :
        LET f   == gen[g]
            te  == TextEvents(f)
            fr  == Fragments(f)
            own == SourceUrls(SourcesOf(ext[g].hits))
        IN  /\ Len(te) = Len(fr)
            /\ f.partial = Flatten(fr)
            /\ IsPrefix(f.partial, ext[g].answer)
            /\ f.pc \in {"line169", "line177", "line187", "returned"} => f.source_urls = own
            /\ \A i \in DOMAIN te :
                   te[i].text = Rewrite(own, Flatten(SubSeq(fr, 1, i)))

\* C13 witness: both runs are suspended in their generation stage, each with a
\* text emitted, and the first has emitted its citation
C13_Witness ==
    /\ \A g \in Gens : gen[g].pc = "line187" /\ TextEvents(gen[g]) # << >>
    /\ Count(Rendered(<<"2">>, ArchiveUrls[2]), Last(gen[1].out, 1)[1].text) = 1


\* the stage an event comes from: 1 intent extraction, 2 retrieval, 3 generation
StageOf(e) ==
    IF e.partial # << >> THEN 3
    ELSE IF e.view[Len(e.view)].title = "Generating metadata" THEN 1
    ELSE 2

\* C14: in the output of a run no event of a stage follows an event of a later
\* stage, the step events carry the empty text, and the i-th text event is the
\* one of the i-th fragment received
C14_EventsInStageOrder ==
    \A g \in Gens :
        LET f  == gen[g]
            te == TextEvents(f)
            fr == Fragments(f)
        IN  /\ \A i, j \in DOMAIN f.out : i < j => StageOf(f.out[i]) <= StageOf(f.out[j])
            /\ \A i \in DOMAIN f.out : StageOf(f.out[i]) < 3 <=> f.out[i].text = << >>
            /\ Len(te) = Len(fr)
            /\ \A i \in DOMAIN te : te[i].partial = Flatten(SubSeq(fr, 1, i))

\* C14 witness: a run that emitted the four step events and then two texts
C14_Witness ==
    \E g \in Gens :
        /\ Len(gen[g].out) = 6
        /\ [i \in 1..6 |-> StageOf(gen[g].out[i])] = <<1, 1, 2, 2, 3, 3>>


\* the stage of a run, from the line its frame is at; an exception that leaves
\* the frame, GeneratorExit included, ends the run as failed
Stage(f) ==
    CASE f.pc \in {"none", "created"} -> "Idle"
      [] f.pc \in {"line144", "line77", "line148"} -> "ExtractingIntent"
      [] f.pc \in {"line153", "line91", "line103", "line157"} -> "Retrieving"
      [] f.pc \in {"line169", "line177", "line187"} -> "Generating"
      [] f.pc = "returned" -> "Done"
      [] OTHER -> "Failed"

StageOrder == <<"Idle", "ExtractingIntent", "Retrieving", "Generating", "Done">>

\* the request a step sends, if it sends one
Sent(f, f1, call) == f1.calls = Append(f.calls, call)

\* C15: every step of a run stays in its stage, moves to the next stage of the
\* order or fails; a finished or failed run does nothing more; the embedding and
\* the search are requested only with the metadata intent extraction returned,
\* and the answer only with the sources retrieval returned
C15_StagesInOrder ==
    [][\A g \in Gens :
          LET f  == gen[g]
              f1 == gen'[g]
              s  == Stage(f)
              t  == Stage(f1)
          IN  /\ s # t =>
                     \/ \E i \in 1..4 : s = StageOrder[i] /\ t = StageOrder[i + 1]
                     \/ t = "Failed" /\ s # "Done"
              /\ s \in {"Done", "Failed"} => f1 = f
              /\ (Sent(f, f1, "embeddings.create") \/ Sent(f, f1, "search"))
                     => /\ f.calls[1] = "responses.create"
                        /\ f.metadata = ext[g].metadata
                        /\ s = "Retrieving"
              /\ Sent(f, f1, "responses.create(stream)")
                     => /\ "search" = f.calls[Len(f.calls)]
                        /\ f.sources = SourcesOf(ext[g].hits)
                        /\ s = "Retrieving" /\ t = "Generating"]_vars

\* C15 witness: a run that went through every stage and is done
C15_Witness ==
    \E g \in Gens :
        /\ Stage(gen[g]) = "Done"
        /\ gen[g].calls = <<"responses.create", "embeddings.create", "search",
                            "responses.create(stream)">>
        /\ Len(gen[g].out) >= 5


\* C16: a run that failed in intent extraction or in retrieval holds the error
\* for its caller; the step in flight is done and its scope left, no step and no
\* request of a later stage exists, and the events are those emitted before the
\* failure: the start of step 1, or both events of step 1 and the start of step 2
C16_FailureAborts ==
    \A g \in Gens :
        LET f == gen[g]
        IN  /\ (f.pc = "raised" /\ f.error = "IntentExtractionError")
                   => /\ Len(f.handles) = 1
                      /\ f.calls = <<"responses.create">>
                      /\ Len(f.out) = 1
                      /\ f.metadata = NoMetadata
            /\ (f.pc = "raised" /\ f.error = "RetrievalError")
                   => /\ Len(f.handles) = 2
                      /\ f.calls \in {<<"responses.create", "embeddings.create">>,
                                      <<"responses.create", "embeddings.create", "search">>}
                      /\ Len(f.out) = 3
                      /\ f.sources = << >>
            /\ (f.pc = "raised" /\ f.error \in {"IntentExtractionError", "RetrievalError"})
                   => /\ dicts[yielders[f.step].step].status = "done"
                      /\ \A i \in DOMAIN f.handles : yielders[f.handles[i]].scope = "closed"
                      /\ \A i \in DOMAIN f.out : ~IsTextEvent(f.out[i])
                      /\ f.stream = "none"

\* C16 witness: the search failed after the embedding was made
C16_Witness ==
    \E g \in Gens :
        /\ gen[g].pc = "raised"
        /\ gen[g].error = "RetrievalError"
        /\ Len(gen[g].calls) = 3
        /\ dicts[yielders[gen[g].step].step].title = "Searching articles"
        /\ dicts[yielders[gen[g].step].step].status = "done"


\* the requests of a run that nothing stops, in the order process sends them
AllCalls ==
    <<"responses.create", "embeddings.create", "search", "responses.create(stream)">>

\* C17: the requests a run has sent are the first ones of the four, each sent
\* once, whether they were answered or failed; retrieval was entered at most
\* once, with the metadata the one intent extraction returned
C17_EachCallAtMostOnce ==
    \A g \in Gens :
        LET f == gen[g]
        IN  /\ IsPrefix(f.calls, AllCalls)
            /\ \A c \in {AllCalls[i] : i \in 1..4} : Count(<<c>>, f.calls) <= 1
            /\ Len(f.calls) >= 2 => f.metadata = ext[g].metadata

\* C17 witness: the search failed; one request was sent to each service before it
C17_Witness ==
    \E g \in Gens :
        /\ gen[g].pc = "raised"
        /\ gen[g].error = "RetrievalError"
        /\ gen[g].calls = <<"responses.create", "embeddings.create", "search">>


\* C18: a run whose stream broke after k fragments has emitted, after its four
\* step events, k texts and no other event: the i-th is the rewriting of the
\* first i fragments with the index of the hits, as in a run that is not
\* interrupted; both steps are done, in the heap and in what the texts carry
C18_InterruptedStreamKeepsTexts ==
    \A g \in Gens :
        (gen[g].pc = "raised" /\ gen[g].error = "GenerationStreamError")
        => LET f  == gen[g]
               te == TextEvents(f)
               fr == Fragments(f)
           IN  /\ Len(te) = Len(fr)
               /\ Len(f.out) = 4 + Len(fr)
               /\ \A i \in DOMAIN te :
                      /\ f.out[4 + i] = te[i]
                      /\ te[i].text = Rewrite(SourceUrls(SourcesOf(ext[g].hits)),
                                              Flatten(SubSeq(fr, 1, i)))
                      /\ Len(te[i].steps) = 2
                      /\ \A k \in DOMAIN te[i].steps :
                             /\ te[i].view[k].status = "done"
                             /\ dicts[te[i].steps[k]].status = "done"
               /\ Len(f.handles) = 2
               /\ \A d \in Begun(f) : dicts[d].status = "done"
               /\ f.stream # "held"

\* C18 witness: the stream broke after two fragments, with text still to come
C18_Witness ==
    \E g \in Gens :
        /\ gen[g].pc = "raised"
        /\ gen[g].error = "GenerationStreamError"
        /\ Len(Fragments(gen[g])) = 2
        /\ Len(TextEvents(gen[g])) = 2
        /\ gen[g].response # << >>


\* C19: the step that closes a run emits nothing, reads nothing and sends
\* nothing, and leaves the frame without the stream; a closed run does nothing
\* more
C19_CloseReleasesAndStops ==
    [][\A g \in Gens :
          LET f  == gen[g]
              f1 == gen'[g]
          IN  f1.pc = "closed"
              => /\ f1.stream # "held"
                 /\ f1.out = f.out
                 /\ f1.chunks = f.chunks
                 /\ f1.partial = f.partial
                 /\ f1.calls = f.calls
                 /\ f.pc = "closed" => f1 = f]_vars

\* C19 witness: a run closed after its first text, with the stream it held
\* released and text still to come
C19_Witness ==
    \E g \in Gens :
        /\ gen[g].pc = "closed"
        /\ gen[g].stream = "released"
        /\ Len(TextEvents(gen[g])) = 1
        /\ gen[g].response # << >>


\* C20: with one run after the other on the instance, every snapshot of a run
\* holds its own steps only, the first one its first step alone; its
\* accumulator is empty when the stream opens and holds its own fragments after;
\* its citation index is the one of its own hits
C20_RunStartsFresh ==
    \A g \in Gens :
        LET f == gen[g]
        IN  /\ (f.show_steps /\ f.out # << >>)
                   => /\ f.out[1].steps = <<yielders[f.handles[1]].step>>
                      /\ \A i \in DOMAIN f.out : IsPrefix(f.out[i].steps, OwnSteps(f))
            /\ (f.pc = "line177" /\ f.chunks = << >>) => f.partial = << >>
            /\ f.partial = Flatten(Fragments(f))
            /\ f.pc \in {"line169", "line177", "line187", "returned"}
                   => f.source_urls = SourceUrls(SourcesOf(ext[g].hits))
            /\ \A i \in DOMAIN TextEvents(f) :
                   TextEvents(f)[i].text
                       = Rewrite(SourceUrls(SourcesOf(ext[g].hits)),
                                 Flatten(SubSeq(Fragments(f), 1, i)))

\* C20 witness: the first run was closed in its generation stage, and the second
\* has emitted its citation of a source it does not have
C20_Witness ==
    /\ gen[1].pc = "closed"
    /\ TextEvents(gen[1]) # << >>
    /\ gen[2].pc = "line187"
    /\ Len(gen[2].out[1].steps) = 1
    /\ DOMAIN gen[2].source_urls = {1}
    /\ Count(Rendered(<<"2">>, <<"#">>), Last(gen[2].out, 1)[1].text) = 1


\* "City Hall held a hearing [[1]](S1.url). Officials [[2]](S2.url) confirmed it."
ExampleRendered ==
    <<"C", "i", "t", "y", " ", "H", "a", "l", "l", " ", "h", "e", "l", "d",
      " ", "a", " ", "h", "e", "a", "r", "i", "n", "g", " ", "[", "[", "1",
      "]", "]", "(">>
      \o ArchiveUrls[1] \o <<")", ".", " ", "O", "f", "f", "i", "c", "i", "a", "l", "s", " ", "[",
      "[", "2", "]", "]", "(">>
      \o ArchiveUrls[2] \o <<")", " ", "c", "o", "n", "f", "i", "r", "m", "e", "d", " ", "i", "t",
      ".">>

\* C21: the last event of a run with step reporting that returned after one
\* fragment or more is the rewriting of the whole answer with the index of the
\* N hits, with the two steps, both done; for the worked example the text is
\* the one the example gives
C21_FinalEvent ==
    \A g \in Gens :
        (gen[g].pc = "returned" /\ gen[g].show_steps /\ Fragments(gen[g]) # << >>)
        => LET f == gen[g]
               e == f.out[Len(f.out)]
           IN  /\ Flatten(Fragments(f)) = ext[g].answer
               /\ e.text = Rewrite(SourceUrls(SourcesOf(ext[g].hits)), ext[g].answer)
               /\ ext[g].answer = Flatten(ExampleFragments) => e.text = ExampleRendered
               /\ Count(Marker(<<"1">>), e.text) + Count(Marker(<<"2">>), e.text) = 0
               /\ [k \in DOMAIN e.steps |-> <<dicts[e.steps[k]].title, dicts[e.steps[k]].status>>]
                      = <<<<"Generating metadata", "done">>, <<"Searching articles", "done">>>>
               /\ [k \in DOMAIN e.view |-> e.view[k].status] = <<"done", "done">>

\* C21 witness: the run of the worked example, with its three fragments, returned
C21_Witness ==
    \E g \in Gens :
        /\ gen[g].pc = "returned"
        /\ Fragments(gen[g]) = ExampleFragments
        /\ Last(gen[g].out, 1)[1].text = ExampleRendered


\* C22: the history of the caller is, at every moment of a run and after it, as
\* it was passed; the request of a run that has begun holds the role and
\* content of its turns and the message of the user, and after retrieval the
\* sources context as well
C22_HistoryUntouched ==
    \A g \in Gens :
        LET f == gen[g]
            n == Len(ext[g].passed)
        IN  /\ ext[g].history = ext[g].passed
            /\ f.handles # << >> =>
                   /\ Len(f.messages) \in {n + 1, n + 2}
                   /\ \A i \in 1..n :
                          /\ f.messages[i].role = ext[g].passed[i].role
                          /\ f.messages[i].content = ext[g].passed[i].content
                   /\ f.messages[n + 1] = [role |-> "user", content |-> ext[g].message]
                   /\ Len(f.messages) = n + 2 <=> "responses.create(stream)" \in
                          {f.calls[i] : i \in DOMAIN f.calls}

\* C22 witness: a run was closed after it had added the sources context to its
\* request
C22_Witness ==
    \E g \in Gens :
        /\ gen[g].pc = "closed"
        /\ Len(gen[g].messages) = Len(ext[g].passed) + 2
        /\ "metadata" \in DOMAIN ext[g].history[2]
        /\ "metadata" \notin DOMAIN gen[g].messages[2]


\* C23: every call of complete on a handle returns the snapshot, with the empty
\* text and the steps of the list, and leaves the step done; its content is the
\* one given if that is not empty, and the one it had otherwise; no other step,
\* no list and no handle changes
C23_CompleteSetsDone ==
    [][(client'.op = "complete" /\ client'.calls = client.calls + 1 /\ ~client'.raised)
       => LET y == client'.handle
              h == yielders[y]
          IN  /\ client'.ret = <<[text |-> << >>, steps |-> lists[h.steps_list]]>>
              /\ dicts'[h.step].status = "done"
              /\ dicts'[h.step].title = dicts[h.step].title
              /\ GetContent(dicts'[h.step])
                     = IF client'.content # << >> THEN client'.content
                       ELSE GetContent(dicts[h.step])
              /\ DOMAIN dicts'[h.step] = DOMAIN dicts[h.step]
                     \cup (IF client'.content # << >> THEN {"content"} ELSE {})
              /\ \A d \in DOMAIN dicts : d # h.step => dicts'[d] = dicts[d]
              /\ UNCHANGED <<current_steps, lists, yielders>>]_vars

\* C23 witness: complete was called a second time, without content, on a step
\* of a list of two that was done and had a content, and the content is kept
C23_Witness ==
    /\ client.op = "complete"
    /\ client.content = << >>
    /\ ~client.raised
    /\ client.calls >= 2
    /\ GetContent(dicts[yielders[client.handle].step]) # << >>
    /\ dicts[yielders[client.handle].step].status = "done"
    /\ Len(lists[yielders[client.handle].steps_list]) = 2
    /\ Len(client.ret[1].steps) = 2


\* the lines of a text, split at its line breaks
RECURSIVE SplitLines(_)
SplitLines(t) ==
    IF \A i \in DOMAIN t : t[i] # "\n" THEN <<t>>
    ELSE LET k == CHOOSE i \in DOMAIN t : t[i] = "\n" /\ \A j \in 1..(i - 1) : t[j] # "\n"
         IN  <<SubSeq(t, 1, k - 1)>> \o SplitLines(SubSeq(t, k + 1, Len(t)))

\* a line of the summary without the emoji and the space it starts with, and
\* without the period it may end with
Bare(line) ==
    LET l == SubSeq(line, 3, Len(line))
    IN  IF l # << >> /\ l[Len(l)] = "." THEN SubSeq(l, 1, Len(l) - 1) ELSE l

\* the date phrase as the claim spells it
DatePhrase(s, e) ==
    IF s # << >> /\ e # << >> THEN <<"F", "r", "o", "m", " ">> \o s \o <<" ", "t", "o", " ">> \o e
    ELSE IF s # << >> THEN <<"A", "f", "t", "e", "r", " ">> \o s
    ELSE IF e # << >> THEN <<"U", "n", "t", "i", "l", " ">> \o e
    ELSE << >>

\* the author phrase as the claim spells it: "A", "A and B", "A, B, and C"
AuthorPhrase(names) ==
    LET n == Len(names)
    IN  IF n = 0 THEN << >>
        ELSE IF n = 1 THEN <<"W", "r", "i", "t", "t", "e", "n", " ", "b", "y", " ">> \o names[1]
        ELSE IF n = 2 THEN <<"W", "r", "i", "t", "t", "e", "n", " ", "b", "y", " ">> \o names[1] \o <<" ", "a", "n", "d", " ">> \o names[2]
        ELSE <<"W", "r", "i", "t", "t", "e", "n", " ", "b", "y", " ">>
                 \o Flatten([i \in 1..(n - 1) |-> names[i] \o <<",", " ">>])
                 \o <<"a", "n", "d", " ">> \o names[n]

\* C24: the content of the step "Generating metadata", once it is completed,
\* has one line with the quoted search text, then a line with the date phrase
\* if a date is present, then a line with the author phrase if an author is;
\* each phrase follows an emoji, and the From and After phrases end with a period
C24_MetadataSummary ==
    \A g \in Gens :
        (gen[g].show_steps /\ gen[g].metadata # NoMetadata)
        => LET m       == ext[g].metadata
               tip     == GetContent(dicts[OwnSteps(gen[g])[1]])
               lines   == SplitLines(tip)
               names   == [i \in DOMAIN m.authors |-> m.authors[i].name]
               date    == DatePhrase(m.date_range.start_date, m.date_range.end_date)
               phrases == SelectSeq(<<date, AuthorPhrase(names)>>, LAMBDA x : x # << >>)
           IN  /\ Len(lines) = 1 + Len(phrases)
               /\ IsSuffix(<<"\"">> \o m.question \o <<"\"">>, lines[1])
               /\ \A i \in DOMAIN phrases : Bare(lines[i + 1]) = phrases[i]
               /\ gen[g].out[2].view[1].content = tip

\* C24 witness: a summary of three lines, with an end date only and three authors
C24_Witness ==
    \E g \in Gens :
        LET m == ext[g].metadata
        IN  /\ gen[g].show_steps
            /\ gen[g].pc = "line148"
            /\ m.date_range.start_date = << >>
            /\ m.date_range.end_date # << >>
            /\ Len(m.authors) = 3
            /\ Len(SplitLines(GetContent(dicts[OwnSteps(gen[g])[1]]))) = 3


\* a text with each of its line breaks, a CR LF pair, a LF or a CR, replaced by
\* one space
RECURSIVE CollapseBreaks(_)
CollapseBreaks(s) ==
    IF s = << >> THEN << >>
    ELSE IF Len(s) >= 2 /\ s[1] = "\r" /\ s[2] = "\n"
    THEN <<" ">> \o CollapseBreaks(SubSeq(s, 3, Len(s)))
    ELSE IF s[1] \in {"\r", "\n"} THEN <<" ">> \o CollapseBreaks(Tail(s))
    ELSE <<s[1]>> \o CollapseBreaks(Tail(s))

\* the sources retrieval has returned to a run, decoded
Retrieved(g) == [i \in DOMAIN gen[g].sources |-> Loads(gen[g].sources[i])]

\* C25 as stated: the sources are the hits in rank order, with url and headline
\* as they are and the content with every line break replaced by one space; no
\* line break is left in it, and normalising it again changes nothing
C25_BreaksToSingleSpaces ==
    \A g \in Gens :
        gen[g].pc \in {"line157", "line169", "line177", "line187", "returned"}
        => /\ Len(Retrieved(g)) = Len(ext[g].hits)
           /\ \A i \in DOMAIN Retrieved(g) :
                  LET src == Retrieved(g)[i]
                      hit == ext[g].hits[i]
                  IN  /\ src.url = hit.url
                      /\ src.headline = hit.headline
                      /\ src.content = CollapseBreaks(hit.content)
                      /\ \A k \in DOMAIN src.content : src.content[k] \notin {"\r", "\n"}
                      /\ Replace(Replace(src.content, "\n"), "\r") = src.content


\* C26: in every step of a run, each list of steps keeps the steps it has, in
\* their order, and may get new ones at its end; a step is created pending,
\* keeps its title, and once done stays done; the run's list holds at most the
\* two steps "Generating metadata" and "Searching articles", in that order
C26_StepsOnlyMoveForward ==
    [][/\ \A l \in DOMAIN lists : l \in DOMAIN lists' /\ IsPrefix(lists[l], lists'[l])
       /\ \A d \in DOMAIN dicts :
              /\ d \in DOMAIN dicts'
              /\ dicts'[d].title = dicts[d].title
              /\ dicts[d].status = "done" => dicts'[d].status = "done"
       /\ \A d \in DOMAIN dicts' \ DOMAIN dicts : dicts'[d].status = "pending"
       /\ current_steps' # 0 =>
              LET titles == [i \in DOMAIN lists'[current_steps'] |->
                                dicts'[lists'[current_steps'][i]].title]
              IN  IsPrefix(titles, <<"Generating metadata", "Searching articles">>)]_vars

\* C26 witness: the second step is done, by complete and by the exit of its
\* scope, after the first
C26_Witness ==
    \E g \in Gens :
        /\ gen[g].pc = "line169"
        /\ Len(lists[current_steps]) = 2
        /\ \A i \in 1..2 : dicts[lists[current_steps][i]].status = "done"
        /\ \A i \in 1..2 : yielders[gen[g].handles[i]].scope = "closed"


\* C27: in a run with step reporting, an event with an answer text showed, when
\* it was emitted, the two steps of the run, both done; an event that showed a
\* pending step has the empty text
C27_TextsCarryDoneSteps ==
    \A g \in Gens : \A i \in DOMAIN gen[g].out :
        LET e == gen[g].out[i]
        IN  /\ e.text # << >>
                => /\ e.steps = OwnSteps(gen[g])
                   /\ [k \in DOMAIN e.view |-> <<e.view[k].title, e.view[k].status>>]
                          = <<<<"Generating metadata", "done">>,
                              <<"Searching articles", "done">>>>
            /\ (\E k \in DOMAIN e.view : e.view[k].status = "pending") => e.text = << >>

\* C27 witness: a run has emitted an event that showed a pending step, and later
\* an answer text
C27_Witness ==
    \E g \in Gens :
        /\ \E i \in DOMAIN gen[g].out : gen[g].out[i].view[Len(gen[g].out[i].view)].status = "pending"
        /\ Last(gen[g].out, 1)[1].text # << >>


\* the events of a run that has returned: the start and the completion of step
\* 1, those of step 2, and then one text for each fragment received, at least one
ReturnedWithAll(g) ==
    LET f == gen[g]
        M == Len(Fragments(f))
    IN  /\ f.pc = "returned"
        /\ f.error = "none"
        /\ M >= 1
        /\ Flatten(Fragments(f)) = ext[g].answer
        /\ Len(f.out) = 4 + M
        /\ [i \in 1..4 |-> <<f.out[i].text, StageOf(f.out[i]),
                             f.out[i].view[Len(f.out[i].view)].status>>]
               = <<<<<< >>, 1, "pending">>, <<<< >>, 1, "done">>,
                   <<<< >>, 2, "pending">>, <<<< >>, 2, "done">>>>
        /\ \A i \in 5..(4 + M) : f.out[i].text # << >>

\* C28: a run with step reporting, once called, returns in the end, having
\* emitted the four step events in order and then one text per fragment
C28_RunTerminates ==
    \A g \in Gens :
        (gen[g].pc = "created" /\ gen[g].show_steps) ~> ReturnedWithAll(g)

\* C28 witness: a run returned after three fragments
C28_Witness ==
    \E g \in Gens : ReturnedWithAll(g) /\ Len(Fragments(gen[g])) = 3


\* C29: a step of a run that reads an event of the stream which is not a text
\* delta, or a text delta with an empty fragment, emits nothing and leaves the
\* accumulator as it is; one that reads a non-empty fragment appends it and emits
\* one text; so a run has emitted as many texts as it received non-empty
\* fragments, and none when it received none
C29_IgnoredChunksEmitNothing ==
    [][\A g \in Gens :
          LET f  == gen[g]
              f1 == gen'[g]
          IN  /\ Len(f1.chunks) = Len(f.chunks) + 1 =>
                     LET c == f1.chunks[Len(f1.chunks)]
                     IN  IF IsTextDelta(c)
                         THEN /\ Len(f1.out) = Len(f.out) + 1
                              /\ f1.partial = f.partial \o c.delta
                         ELSE /\ f1.out = f.out
                              /\ f1.partial = f.partial
                              /\ f1.pc = f.pc
              /\ Len(TextEvents(f1)) = Len(Fragments(f1))
              /\ Fragments(f1) = << >> => TextEvents(f1) = << >>]_vars

\* C29 witness: a stream of an event of another type and an empty text delta,
\* and no text; the run has returned with its four step events
C29_Witness ==
    \E g \in Gens :
        /\ gen[g].pc = "returned"
        /\ Len(gen[g].chunks) = 2
        /\ gen[g].chunks[1].type = "response.created"
        /\ gen[g].chunks[2] = [type |-> "response.output_text.delta", delta |-> << >>]
        /\ Len(gen[g].out) = 4
        /\ TextEvents(gen[g]) = << >>


\* the numerals of the markers of LabelAnswers
LabelDigitStrings == {<<"1">>, <<"0", "1">>, <<"0", "3">>, <<"0", "0", "2">>}

\* C30: in every emission, a marker whose digits have the value k of a retrieved
\* source is rendered with its digits as written, leading zeros kept, and with
\* the url of source k, so [SRC01] and [SRC1] link to the same source; no such
\* marker is left unrewritten; and a text without a marker of the exact form
\* [SRC<digits>] is emitted as it is
C30_LeadingZerosKeepLabel ==
    \A g \in Gens :
        LET te == TextEvents(gen[g])
        IN  \A i \in DOMAIN te :
                /\ \A ds \in LabelDigitStrings :
                       DigitsToInt(ds) \in 1..Len(ext[g].hits)
                       => /\ Count(Rendered(ds, ext[g].hits[DigitsToInt(ds)].url),
                                   te[i].text)
                                = Count(Marker(ds), te[i].partial)
                          /\ Count(Marker(ds), te[i].text) = 0
                /\ NumMarkers(te[i].partial) = 0 => te[i].text = te[i].partial

\* C30 witness: three sources, the answer [SRC03] delivered in fragments, and the
\* last text is [[03]](url of source 3)
C30_Witness ==
    \E g \in Gens :
        /\ Delivered(g)
        /\ Len(ext[g].hits) = 3
        /\ ext[g].answer = Marker(<<"0", "3">>)
        /\ Len(Fragments(gen[g])) >= 2
        /\ TextEvents(gen[g])[Len(TextEvents(gen[g]))].text
               = <<"[", "[", "0", "3", "]", "]", "(">> \o ArchiveUrls[3] \o <<")">>


\* a turn for each step as the event showed it when process yielded it
ShownSteps(e) ==
    [i \in DOMAIN e.view |->
        [role |-> "assistant",
         content |-> IF "content" \in DOMAIN e.view[i] THEN e.view[i].content ELSE << >>,
         metadata |-> [title |-> e.view[i].title, status |-> e.view[i].status]]]

\* the calls of chat_with_dewey made so far
ChatCalls == {g \in Gens : chat.frames[g].pc # "none"}

\* C31: the first update of a call shows the history it was given and the new
\* message of the user; every later update shows that, then one turn for each
\* step of the event's snapshot and one turn with the answer, so nothing of an
\* earlier update stays and the length is that of the history with the message
\* plus the number of steps plus one; and the session's message_count is the
\* number of calls made
C31_DisplayRebuilt ==
    /\ \A g \in ChatCalls :
           LET c     == chat.frames[g]
               u     == c.updates
               shown == Append(c.prior, [role |-> "user", content |-> c.message])
           IN  /\ Len(u) = c.consumed + 1
               /\ u[1].history = shown
               /\ u[1].session_state.user_data["message_count"] = g
               /\ \A k \in 2..Len(u) :
                      LET e == gen[g].out[k - 1]
                      IN  /\ u[k].history
                                = shown \o ShownSteps(e)
                                        \o <<[role |-> "assistant", content |-> e.text]>>
                          /\ Len(u[k].history) = Len(shown) + Len(e.steps) + 1
                          /\ u[k].session_state = u[1].session_state
    /\ chat.session_state.user_data
           = IF ChatCalls = {} THEN << >>
             ELSE "message_count" :> Cardinality(ChatCalls)

\* C31 witness: the second message of a session, submitted on a display that
\* shows the first exchange; the call has shown the two done steps and the
\* answer, and the count is 2
C31_Witness ==
    LET c == chat.frames[2]
    IN  /\ c.pc = "returned"
        /\ gen[2].pc = "returned"
        /\ Len(c.prior) >= 4
        /\ Len(c.updates) >= 6
        /\ Len(c.updates[Len(c.updates)].history) = Len(c.prior) + 4
        /\ c.updates[Len(c.updates)].history[Len(c.prior) + 4].content = <<"a">>
        /\ chat.session_state.user_data["message_count"] = 2

=============================================================================
